---------------------------- MODULE Spec2Model ----------------------------
(***************************************************************************)
(* Model of the listing crawler: phone normalisation, the filter pipeline, *)
(* the spreadsheet sink, the rate limiter, the two collection strategies   *)
(* (panel enumeration, carousel iteration), captcha detection, the captcha *)
(* wait with its visible-browser helper, and the two loading loops.        *)
(*                                                                         *)
(* Text is modelled as a sequence of one-character tokens.  Cyrillic       *)
(* letters are written by their transliteration (lower case "sh", upper    *)
(* case "SH", "yo" is the letter io), Latin letters as "lat_n" / "LAT_N",  *)
(* the numero sign as "No".                                                *)
(***************************************************************************)
EXTENDS Integers, Sequences, FiniteSets, TLC

VARIABLES
    variant,          \* which filters module is imported: "root" (src/filters.py) or "app" (src/app/filters.py)
    f_row,            \* the record handed to passes_potential_filters
    f_settings,       \* settings.potential_filters
    f_result,         \* <<>> before the evaluation, then <<the returned boolean>>
    produced,         \* the records the collector has yielded to the orchestrator, in order
    writer,           \* the ExcelWriter: full_sheet and potential_sheet rows (headers left out),
                      \* _counter, and saved = the row counts last written to disk by flush
    last_include,     \* <<include_in_potential of the last append>>, <<>> before the first
    stop_event,       \* threading.Event set by the controller's Stop
    pause_event,      \* threading.Event set by Pause, cleared by Resume and Stop
    mode,             \* --mode: "slow" (panel enumeration) or "fast" (carousel)
    sink_pc,          \* orchestrator position: "collect" | "loop" | "body" | "pause_wait" | "closed"
    ph_text,          \* the raw phone text a card shows
    ph_out,           \* <<>> before the card is parsed, then <<Organization.phone>>
    rl,               \* the RateLimiter: backoff_base_s, backoff_max_s, _backoff_s
    waits,            \* the delays of the wait_backoff calls since construction / reset_backoff
    rl_fresh,         \* no attribute was reassigned since construction / reset_backoff
    limit,            \* the configured limit, 0 = none
    all_ids,          \* panel: identifiers enumerated by _collect_all_ids
    parsed_ids,       \* panel: identifiers already yielded
    seen_keys,        \* carousel: dedupe keys already seen
    items,            \* panel: data-id of the list entries visible in the current round
    idx,              \* loop index inside the current round / over the carousel cards
    parsed_this_round,\* panel: records yielded in the current round
    total,            \* len(all_ids) / cards.count()
    dedupe_key,       \* carousel: dedupe_key of the card read last
    captchas,         \* carousel: captchas detected so far
    ok_since_clear,   \* carousel: a card was processed after the last captcha was cleared
    crawl_pc,         \* collector position
    dt_page,          \* the page handed to is_captcha: what its url, title and locators answer
    dt_out,           \* <<>> before the call, then <<[result, reads] of is_captcha>>
    headless,         \* settings.program.headless
    helper,           \* the CaptchaFlowHelper of the run and the visible browser it may own
    cw,               \* the running wait_captcha_resolved call: position, page in use, last Detect
    hooks,            \* the stages the current / last wait_captcha_resolved call handed to hook
    captcha_resume_event, \* threading.Event set by the controller's Resume and Stop
    ld,               \* locals of the running _collect_all_ids / _load_all_cards loop
    max_clicks,       \* the max_clicks argument of parse_serp_cards
    serp_card,        \* carousel: <<>> or <<the fields read so far of the card at idx,
                      \* and the extraction steps taken for it>>
    progress_calls,   \* carousel: the dicts handed to the progress callback, in order
    rl_calls,         \* the rate limiter calls made after the latest yielded record
    config,           \* the potential_filters entry of settings.json: max_rating is <<>>
                      \* for null or <<text>> for a value whose str() is text
    gui               \* the GUI object and its worker threads: _running, _log_queue,
                      \* the threads created so far and where each one stands

filterVars == <<variant, f_row, f_settings, f_result, config>>
sinkVars ==
    <<produced, writer, last_include, stop_event, pause_event, mode, sink_pc>>

phoneVars == <<ph_text, ph_out>>
rateVars == <<rl, waits, rl_fresh>>
crawlVars ==
    <<limit, all_ids, parsed_ids, seen_keys, items, idx, parsed_this_round, total,
      dedupe_key, captchas, ok_since_clear, crawl_pc>>

detectVars == <<dt_page, dt_out>>
captchaRest == <<headless, helper, cw, hooks>>
captchaVars == <<captchaRest, captcha_resume_event>>
loadVars == <<ld, max_clicks>>
serpVars == <<serp_card, progress_calls, rl_calls>>
runVars == <<gui>>
extVars == <<detectVars, captchaVars, loadVars, serpVars, runVars>>

vars == <<filterVars, sinkVars, phoneVars, rateVars, crawlVars, extVars>>

-----------------------------------------------------------------------------
(* Text helpers: the str methods and re patterns the source uses.          *)

\* Python None, where the other values are numbers
None == -1

UpperPairs ==
    { <<"A", "a">>, <<"B", "b">>, <<"V", "v">>, <<"G", "g">>, <<"D", "d">>,
      <<"E", "e">>, <<"YO", "yo">>, <<"ZH", "zh">>, <<"Z", "z">>, <<"I", "i">>,
      <<"J", "j">>, <<"K", "k">>, <<"L", "l">>, <<"M", "m">>, <<"N", "n">>,
      <<"O", "o">>, <<"P", "p">>, <<"R", "r">>, <<"S", "s">>, <<"T", "t">>,
      <<"U", "u">>, <<"F", "f">>, <<"H", "h">>, <<"C", "c">>, <<"CH", "ch">>,
      <<"SH", "sh">>, <<"SCH", "sch">>, <<"HARD", "hard">>, <<"Y", "y">>,
      <<"SOFT", "soft">>, <<"EH", "eh">>, <<"YU", "yu">>, <<"YA", "ya">>,
      <<"LAT_N", "lat_n">>, <<"LAT_O", "lat_o">>, <<"LAT_C", "lat_c">>,
      <<"LAT_S", "lat_s">> }

Digits == {"0", "1", "2", "3", "4", "5", "6", "7", "8", "9"}

\* characters that are not \w: white space and punctuation
NonWordChars ==
    {" ", ",", ".", "-", "/", "'", "(", ")", "+", "|", "No", "laquo", "raquo",
     "bslash", "dquote", "ldquo", "rdquo"}

IsWord(c) == c \notin NonWordChars

lower_char(c) ==
    IF \E p \in UpperPairs : p[1] = c
    THEN (CHOOSE p \in UpperPairs : p[1] = c)[2]
    ELSE c

\* str.lower()
lower(s) == [i \in 1..Len(s) |-> lower_char(s[i])]

\* the Python test `w in s` on strings
Contains(s, w) ==
    \E i \in 0..(Len(s) - Len(w)) : SubSeq(s, i + 1, i + Len(w)) = w

RECURSIVE lstrip(_)
lstrip(s) == IF s # <<>> /\ Head(s) = " " THEN lstrip(Tail(s)) ELSE s

RECURSIVE rstrip(_)
rstrip(s) ==
    IF s # <<>> /\ s[Len(s)] = " " THEN rstrip(SubSeq(s, 1, Len(s) - 1)) ELSE s

\* str.strip()
strip(s) == rstrip(lstrip(s))

\* str.split(sep) for a one-character separator
RECURSIVE split(_, _)
split(s, sep) ==
    IF \E i \in 1..Len(s) : s[i] = sep
    THEN LET i == CHOOSE k \in 1..Len(s) :
                      s[k] = sep /\ \A j \in 1..(k - 1) : s[j] # sep
         IN  <<SubSeq(s, 1, i - 1)>> \o split(SubSeq(s, i + 1, Len(s)), sep)
    ELSE <<s>>

\* str.replace(a, b) for one-character a and b
replace(s, a, b) == [i \in 1..Len(s) |-> IF s[i] = a THEN b ELSE s[i]]

\* re.sub(r"\b(?:no|n)\b", " ", s), scanning from position i
RECURSIVE sub_no(_, _)
sub_no(s, i) ==
    IF i > Len(s) THEN <<>>
    ELSE LET startB == i = 1 \/ ~IsWord(s[i - 1])
             endB(j) == j = Len(s) \/ ~IsWord(s[j + 1])
         IN  IF startB /\ s[i] = "lat_n" /\ i + 1 <= Len(s)
                /\ s[i + 1] = "lat_o" /\ endB(i + 1)
             THEN <<" ">> \o sub_no(s, i + 2)
             ELSE IF startB /\ s[i] = "lat_n" /\ endB(i)
             THEN <<" ">> \o sub_no(s, i + 1)
             ELSE <<s[i]>> \o sub_no(s, i + 1)

\* re.sub(r"\s+", " ", s)
RECURSIVE collapse_spaces(_)
collapse_spaces(s) ==
    IF s = <<>> THEN <<>>
    ELSE IF Head(s) = " " /\ Len(s) > 1 /\ s[2] = " "
    THEN collapse_spaces(Tail(s))
    ELSE <<Head(s)>> \o collapse_spaces(Tail(s))


-----------------------------------------------------------------------------
(* The filter pipeline, in its two variants.                               *)

NONCOMMERCIAL_KEYWORDS ==
    { <<"sh", "k", "o", "l", "a">>,
      <<"d", "e", "t", "s", "k", "i", "j", " ", "s", "a", "d">>,
      <<"s", "a", "d", "i", "k">>,
      <<"u", "n", "i", "v", "e", "r", "s", "i", "t", "e", "t">>,
      <<"k", "o", "l", "l", "e", "d", "zh">>,
      <<"t", "e", "h", "n", "i", "k", "u", "m">>,
      <<"b", "o", "l", "soft", "n", "i", "c", "a">>,
      <<"p", "o", "l", "i", "k", "l", "i", "n", "i", "k", "a">>,
      <<"m", "f", "c">>,
      <<"a", "d", "m", "i", "n", "i", "s", "t", "r", "a", "c", "i", "ya">>,
      <<"m", "u", "n", "i", "c", "i", "p">>,
      <<"g", "o", "s">>,
      <<"g", "o", "s", "u", "d", "a", "r">>,
      <<"b", "i", "b", "l", "i", "o", "t", "e", "k", "a">>,
      <<"m", "u", "z", "e", "j">>,
      <<"z", "a", "g", "s">>,
      <<"n", "a", "l", "o", "g", "o", "v", "a", "ya">>,
      <<"p", "a", "s", "p", "o", "r", "t", "n", "y", "j">>,
      <<"s", "o", "c">>,
      <<"c", "e", "n", "t", "r", " ", "z", "a", "n", "ya", "t", "o", "s", "t", "i">> }

PRIVATE_EXCEPTION_KEYWORDS ==
    { <<"d", "e", "t", "s", "k", "i", "j", " ", "s", "a", "d">>,
      <<"ya", "s", "l", "i">>,
      <<"sh", "k", "o", "l", "a">>,
      <<"l", "i", "c", "e", "j">>,
      <<"g", "i", "m", "n", "a", "z", "i", "ya">>,
      <<"k", "o", "l", "l", "e", "d", "zh">>,
      <<"t", "e", "h", "n", "i", "k", "u", "m">>,
      <<"i", "n", "s", "t", "i", "t", "u", "t">>,
      <<"u", "n", "i", "v", "e", "r", "s", "i", "t", "e", "t">>,
      <<"a", "k", "a", "d", "e", "m", "i", "ya">>,
      <<"u", "ch", "i", "l", "i", "sch", "e">>,
      <<"p", "t", "u">>,
      <<"d", "o", "p", "o", "l", "n", "i", "t", "e", "l", "soft", "n", "o", "e", " ",
        "o", "b", "r", "a", "z", "o", "v", "a", "n", "i", "e">>,
      <<"m", "u", "z", "y", "k", "a", "l", "soft", "n", "a", "ya", " ",
        "sh", "k", "o", "l", "a">>,
      <<"h", "u", "d", "o", "zh", "e", "s", "t", "v", "e", "n", "n", "a", "ya", " ",
        "sh", "k", "o", "l", "a">> }

\* the alternatives of SCHOOL_ABBREVIATION_PATTERN, r"\b(?:сош|гсош|мсош)\s*\d"
SCHOOL_ABBREVIATIONS ==
    { <<"s", "o", "sh">>, <<"g", "s", "o", "sh">>, <<"m", "s", "o", "sh">> }

EDU_OWNER_KEYWORDS ==
    { <<"m", "b", "o", "u">>, <<"m", "a", "o", "u">>,
      <<"m", "k", "o", "u">>, <<"g", "b", "o", "u">> }

EDU_TYPE_KEYWORDS ==
    { <<"s", "o", "sh">>, <<"d", "o", "u">>, <<"l", "i", "c", "e", "j">>,
      <<"g", "i", "m", "n", "a", "z", "i", "ya">> }

PRIVATE_MARKER == <<"ch", "a", "s", "t", "n">>

\* the character class of the first re.sub of _normalize_text
PunctClass == {".", "-", "/", "bslash", "dquote", "'", "ldquo", "rdquo", "laquo", "raquo"}

\* _parse_list: split on commas, strip, lower, drop the empty parts
_parse_list(value) ==
    IF value = <<>> THEN <<>>
    ELSE LET parts == split(value, ",")
             cleaned == [i \in 1..Len(parts) |-> lower(strip(parts[i]))]
         IN  SelectSeq(cleaned, LAMBDA w : w # <<>>)

_normalize_text(value) ==
    IF value = <<>> THEN <<>>
    ELSE LET n1 == replace(lower(value), "yo", "e")
             n2 == [i \in 1..Len(n1) |-> IF n1[i] \in PunctClass THEN " " ELSE n1[i]]
             n3 == replace(n2, "No", " ")
             n4 == sub_no(n3, 1)
             n5 == collapse_spaces(n4)
         IN  strip(n5)

\* float(str(value).replace(",", ".")) in hundredths; None when float() raises
RECURSIVE digits_value(_)
digits_value(s) ==
    IF s = <<>> THEN 0
    ELSE 10 * digits_value(SubSeq(s, 1, Len(s) - 1))
         + (CHOOSE d \in 0..9 : ToString(d) = s[Len(s)])

parse_float(text) ==
    LET s == strip(replace(text, ",", "."))
        parts == split(s, ".")
        allDigits(p) == \A i \in 1..Len(p) : p[i] \in Digits
    IN  IF Len(parts) = 1 /\ parts[1] # <<>> /\ allDigits(parts[1])
        THEN 100 * digits_value(parts[1])
        ELSE IF Len(parts) = 2 /\ allDigits(parts[1]) /\ allDigits(parts[2])
                /\ Len(parts[1]) + Len(parts[2]) > 0 /\ Len(parts[2]) <= 2
        THEN 100 * digits_value(parts[1])
             + (IF Len(parts[2]) = 1 THEN 10 * digits_value(parts[2])
                ELSE digits_value(parts[2]))
        ELSE None

_get_rating(row) == IF row.rating = <<>> THEN None ELSE parse_float(row.rating)

\* filters.py: is_noncommercial works on name.lower()
is_noncommercial(row) ==
    LET name == lower(row.name)
    IN  name # <<>> /\ \E keyword \in NONCOMMERCIAL_KEYWORDS : Contains(name, keyword)

\* app/filters.py: is_noncommercial works on the normalized name
app_is_noncommercial(row) ==
    LET name == _normalize_text(row.name)
    IN  name # <<>> /\ \E keyword \in NONCOMMERCIAL_KEYWORDS : Contains(name, keyword)

is_private_exception(name) ==
    /\ Contains(name, PRIVATE_MARKER)
    /\ \E keyword \in PRIVATE_EXCEPTION_KEYWORDS : Contains(name, keyword)

has_school_abbreviation(name) ==
    \/ \E i \in 1..Len(name) : \E abbr \in SCHOOL_ABBREVIATIONS :
          /\ i = 1 \/ ~IsWord(name[i - 1])
          /\ i + Len(abbr) - 1 <= Len(name)
          /\ SubSeq(name, i, i + Len(abbr) - 1) = abbr
          /\ \E j \in (i + Len(abbr))..Len(name) :
                /\ name[j] \in Digits
                /\ \A k \in (i + Len(abbr))..(j - 1) : name[k] = " "
    \/ /\ \E owner \in EDU_OWNER_KEYWORDS : Contains(name, owner)
       /\ \E keyword \in EDU_TYPE_KEYWORDS : Contains(name, keyword)

CHECKMARKS == {"sinyaya", "zelyonaya", "zelenaya"}

\* the rules after the name rules, shared by both variants (filters.py:84-95)
\* a faulty rule 6 that rejects a rating equal to max_rating
field_rules_pass_ge(row, filters) ==
    LET rating == _get_rating(row)
    IN  /\ ~(filters.exclude_no_phone /\ strip(row.phone) = <<>>)
        /\ ~(filters.require_checkmark /\ row.verified \notin CHECKMARKS)
        /\ ~(filters.exclude_good_place /\ strip(row.award) # <<>>)
        /\ ~(filters.max_rating # None /\ rating # None /\ rating >= filters.max_rating)

field_rules_pass(row, filters) ==
    LET phone == row.phone
        check_mark == row.verified
        good_place == row.award
        rating == _get_rating(row)
    IN  /\ ~(filters.exclude_no_phone /\ strip(phone) = <<>>)
        /\ ~(filters.require_checkmark /\ check_mark \notin CHECKMARKS)
        /\ ~(filters.exclude_good_place /\ strip(good_place) # <<>>)
        /\ ~(filters.max_rating # None /\ rating # None /\ rating > filters.max_rating)

\* src/filters.py
passes_potential_filters(row, filters) ==
    LET name == lower(row.name)
        white_list == _parse_list(filters.white_list)
        stop_words == _parse_list(filters.stop_words)
    IN  /\ white_list # <<>> =>
               \E i \in 1..Len(white_list) : Contains(name, white_list[i])
        /\ ~(stop_words # <<>>
               /\ \E i \in 1..Len(stop_words) : Contains(name, stop_words[i]))
        /\ field_rules_pass(row, filters)
        /\ ~(filters.exclude_noncommercial /\ is_noncommercial(row))

\* src/app/filters.py
app_passes_potential_filters(row, filters) ==
    LET name == _normalize_text(row.name)
        private_exception == is_private_exception(name)
        white_list == _parse_list(filters.white_list)
        parsed == _parse_list(filters.stop_words)
        stop_words == [i \in 1..Len(parsed) |-> _normalize_text(parsed[i])]
    IN  /\ white_list # <<>> =>
               \E i \in 1..Len(white_list) : Contains(name, white_list[i])
        /\ ~(/\ stop_words # <<>>
             /\ \/ \E i \in 1..Len(stop_words) : Contains(name, stop_words[i])
                \/ has_school_abbreviation(name)
             /\ ~private_exception)
        /\ field_rules_pass(row, filters)
        /\ ~(filters.exclude_noncommercial /\ app_is_noncommercial(row)
               /\ ~private_exception)

\* the function the orchestrator imports under the name passes_potential_filters
Passes(v, row, filters) ==
    IF v = "root" THEN passes_potential_filters(row, filters)
    ELSE app_passes_potential_filters(row, filters)


-----------------------------------------------------------------------------
(* Inputs of the filter: records and settings.                             *)

Names ==
    { <<"K", "o", "f", "e", " ", "i", " ", "sh", "k", "o", "l", "a">>,
      <<"CH", "a", "s", "t", "n", "a", "ya", " ", "sh", "k", "o", "l", "a", " ",
        "G", "a", "r", "m", "o", "n", "i", "ya">>,
      <<"K", "o", "f", "e", "j", "n", "ya">>,
      <<"SH", "k", "o", "l", "a", " ", "No", "5">>,
      <<"M", "B", "O", "U", " ", "S", "O", "SH", " ", "1", "2">>,
      <<"YO", "l", "k", "a">>,
      <<>>,
      <<"CH", "a", "s", "t", "n", "y", "j", " ", "l", "i", "c", "e", "j", "-",
        "k", "o", "f", "e">>,
      <<"M", "u", "z", "e", "j", " ", "k", "o", "f", "e">>,
      <<"CH", "a", "s", "t", "n", "a", "ya", " ", "k", "o", "f", "e", "j", "n", "ya">>,
      <<"SH", "k", "o", "l", "a", " ", "lat_n", " ", "5", " ", "k", "o", "f", "e">>,
      <<"S", "O", "SH", "7", " ", "K", "o", "f", "e">> }

PhoneA == <<"+", "7", "4", "9", "5", "1", "1", "1", "2", "2", "3", "3">>
PhoneB == <<"+", "7", "8", "0", "0", "5", "5", "5", "3", "5", "3", "5">>

AwardText == <<"H", "o", "r", "o", "sh", "e", "e", " ", "m", "e", "s", "t", "o">>

\* rating texts a collector can produce: empty, decimals, a non-numeric label
Rating48 == <<"4", ".", "8">>
Rating49c == <<"4", ",", "9">>
Rating47 == <<"4", ".", "7">>
Rating45 == <<"4", ".", "5">>
RatingLabel == <<"N", "o", "v", "o", "e">>

\* the fields of a record other than its name
FieldProfiles ==
    { [phone |-> PhoneA, verified |-> "sinyaya", award |-> <<>>, rating |-> Rating45],
      [phone |-> <<>>, verified |-> "sinyaya", award |-> <<>>, rating |-> <<>>],
      [phone |-> PhoneA, verified |-> "", award |-> <<>>, rating |-> Rating47],
      [phone |-> PhoneA, verified |-> "green", award |-> AwardText, rating |-> Rating48],
      [phone |-> PhoneA, verified |-> "sinyaya", award |-> <<>>, rating |-> Rating49c],
      [phone |-> PhoneA, verified |-> "sinyaya", award |-> <<>>, rating |-> RatingLabel] }

Organization(name, fields) ==
    [name |-> name, phone |-> fields.phone, verified |-> fields.verified,
     award |-> fields.award, rating |-> fields.rating]

Rows == {Organization(n, f) : n \in Names, f \in FieldProfiles}

WhiteLists ==
    { <<>>, <<"k", "o", "f", "e">>, <<"K", "o", "f", "e", ",", " ", "ch", "a", "j">>,
      <<"yo", "l", "k", "a">>, <<"e", "l", "k", "a">> }

StopWords ==
    { <<>>, <<"sh", "k", "o", "l", "a">>, <<"e", "l", "k", "a">>,
      <<" ", "M", "u", "z", "e", "j", " ", ",", "SH", "k", "o", "l", "a">> }

MaxRating47 == 470

\* the boolean rules and max_rating: all off, one on at a time, all on
FlagProfiles ==
    LET off == [exclude_no_phone |-> FALSE, require_checkmark |-> FALSE,
                exclude_good_place |-> FALSE, exclude_noncommercial |-> FALSE,
                max_rating |-> None]
    IN  { off,
          [off EXCEPT !.exclude_no_phone = TRUE],
          [off EXCEPT !.require_checkmark = TRUE],
          [off EXCEPT !.exclude_good_place = TRUE],
          [off EXCEPT !.exclude_noncommercial = TRUE],
          [off EXCEPT !.max_rating = MaxRating47],
          [exclude_no_phone |-> TRUE, require_checkmark |-> TRUE,
           exclude_good_place |-> TRUE, exclude_noncommercial |-> TRUE,
           max_rating |-> MaxRating47] }

PotentialFiltersSettings(wl, sw, flags) ==
    [white_list |-> wl, stop_words |-> sw,
     exclude_no_phone |-> flags.exclude_no_phone,
     require_checkmark |-> flags.require_checkmark,
     exclude_good_place |-> flags.exclude_good_place,
     exclude_noncommercial |-> flags.exclude_noncommercial,
     max_rating |-> flags.max_rating]

AllSettings ==
    {PotentialFiltersSettings(wl, sw, fl) : wl \in WhiteLists, sw \in StopWords,
                                            fl \in FlagProfiles}

Variants == {"root", "app"}

-----------------------------------------------------------------------------
(* The record sink and the orchestrator loop that feeds it.                *)

flush_every == 10

\* ExcelWriter.__init__: two sheets holding their header row, then flush()
ExcelWriter ==
    [full_sheet |-> <<>>, potential_sheet |-> <<>>, _counter |-> 0, saved |-> <<0, 0>>]

flush(w) == [w EXCEPT !.saved = <<Len(w.full_sheet), Len(w.potential_sheet)>>]

\* a faulty append that writes a record to the full sheet only when it is eligible
append_only_included(w, organization, include_in_potential) ==
    IF include_in_potential
    THEN [w EXCEPT !.full_sheet = Append(@, organization),
                   !.potential_sheet = Append(@, organization),
                   !._counter = @ + 1]
    ELSE [w EXCEPT !._counter = @ + 1]

\* ExcelWriter.append(organization, include_in_potential)
append(w, organization, include_in_potential) ==
    LET w1 == [w EXCEPT !.full_sheet = Append(@, organization)]
        w2 == IF include_in_potential
              THEN [w1 EXCEPT !.potential_sheet = Append(@, organization)]
              ELSE w1
        w3 == [w2 EXCEPT !._counter = @ + 1]
    IN  IF w3._counter % flush_every = 0 THEN flush(w3) ELSE w3

\* ExcelWriter.close()
close(w) == flush(w)

-----------------------------------------------------------------------------
(* Phone extraction: utils.extract_phones and the two collectors' use of it.*)

IsDigit(c) == c \in Digits

\* re.sub(r"\D", "", s) / "".join(ch for ch in s if ch.isdigit())
only_digits(s) == SelectSeq(s, IsDigit)

\* (?:\D*\d){n} from position i: index of the n-th digit, 0 when there is none
RECURSIVE nth_digit_end(_, _, _)
nth_digit_end(s, i, n) ==
    IF n = 0 THEN i - 1
    ELSE IF i > Len(s) THEN 0
    ELSE IF IsDigit(s[i]) THEN nth_digit_end(s, i + 1, n - 1)
    ELSE nth_digit_end(s, i + 1, n)

\* PHONE_RE = (?:\+?7|8)\D*\d(?:\D*\d){9} anchored at i: end index of the match, 0 = none
PHONE_RE_match(s, i) ==
    LET p == IF s[i] = "+"
             THEN (IF i < Len(s) /\ s[i + 1] = "7" THEN i + 2 ELSE 0)
             ELSE IF s[i] \in {"7", "8"} THEN i + 1 ELSE 0
    IN  IF p = 0 THEN 0 ELSE nth_digit_end(s, p, 10)

\* PHONE_RE.findall(text): leftmost non-overlapping matches from position i on
RECURSIVE findall(_, _)
findall(s, i) ==
    IF i > Len(s) THEN <<>>
    ELSE LET e == PHONE_RE_match(s, i)
         IN  IF e = 0 THEN findall(s, i + 1)
             ELSE <<SubSeq(s, i, e)>> \o findall(s, e + 1)

InSeq(x, seq) == \E k \in 1..Len(seq) : seq[k] = x

\* the loop body of extract_phones over the matches, phones = the list built so far
RECURSIVE format_matches(_, _)
format_matches(matches, phones) ==
    IF matches = <<>> THEN phones
    ELSE LET d0 == only_digits(Head(matches))
             digits == IF Len(d0) = 11 /\ d0[1] = "8" THEN <<"7">> \o Tail(d0)
                       ELSE IF Len(d0) = 10 THEN <<"7">> \o d0
                       ELSE d0
             formatted == <<"+">> \o digits
         IN  IF Len(digits) # 11 \/ InSeq(formatted, phones)
             THEN format_matches(Tail(matches), phones)
             ELSE format_matches(Tail(matches), Append(phones, formatted))

extract_phones(text) ==
    IF text = <<>> THEN <<>> ELSE format_matches(findall(text, 1), <<>>)

\* ", ".join(phones)
RECURSIVE join(_)
join(phones) ==
    IF phones = <<>> THEN <<>>
    ELSE IF Len(phones) = 1 THEN phones[1]
    ELSE phones[1] \o <<",", " ">> \o join(Tail(phones))

\* parser_search._extract_phone_from_main_button (and the two fallbacks, which
\* apply the same expression to the text they read)
_extract_phone_from_main_button(text) ==
    IF text = <<>> THEN <<>> ELSE join(extract_phones(text))

\* YandexMapsScraper._normalize_phone
_normalize_phone(raw_phone) ==
    LET digits == only_digits(raw_phone)
    IN  IF Len(digits) # 11 \/ digits[1] \notin {"7", "8"} THEN <<>>
        ELSE IF digits[1] = "8" THEN <<"+", "7">> \o Tail(digits)
        ELSE <<"+">> \o digits

\* utils.sanitize_text
sanitize_text(value) == strip(value)

-----------------------------------------------------------------------------
(* The rate limiter.                                                        *)

Min(a, b) == IF a <= b THEN a ELSE b
Max(a, b) == IF a >= b THEN a ELSE b

\* RateLimiter.__init__
RateLimiter(backoff_base_s, backoff_max_s) ==
    [backoff_base_s |-> backoff_base_s, backoff_max_s |-> backoff_max_s,
     _backoff_s |-> backoff_base_s]

\* the delay wait_backoff sleeps
backoff_delay(r) == Max(0, r._backoff_s)

\* a faulty update that doubles without the backoff_max_s cap
wait_backoff_nocap(r) ==
    [r EXCEPT !._backoff_s = Max(r.backoff_base_s, r._backoff_s * 2)]

\* RateLimiter.wait_backoff: the state after the wait
wait_backoff(r) ==
    [r EXCEPT !._backoff_s = Min(r.backoff_max_s, Max(r.backoff_base_s, r._backoff_s * 2))]

\* RateLimiter.reset_backoff
reset_backoff(r) == [r EXCEPT !._backoff_s = r.backoff_base_s]

\* parser_search._apply_rate_limiter_settings, backoff part
_apply_rate_limiter_settings(r, backoff_base_s, backoff_max_s) ==
    [r EXCEPT !.backoff_base_s = Max(0, backoff_base_s),
              !.backoff_max_s = Max(0, backoff_max_s)]

backoff_base_s_default == 2
backoff_max_s_default == 60

\* run_fast_parser calls parse_serp_cards without batch_every_n: the default
batch_every_n_default == 0

\* RateLimiter.maybe_batch_pause: whether it sleeps batch_pause_s
maybe_batch_pause(index, batch_every_n) ==
    IF batch_every_n <= 0 THEN FALSE ELSE index % batch_every_n = 0

\* parse_serp_cards lines 985-992: the calls made on the rate limiter after a row
rate_calls(index, batch_every_n) ==
    << [op |-> "maybe_batch_pause", index |-> index, every |-> batch_every_n,
        slept |-> maybe_batch_pause(index, batch_every_n)],
       [op |-> "wait_action", index |-> index, every |-> batch_every_n,
        slept |-> FALSE] >>

-----------------------------------------------------------------------------
(* Captcha detection: captcha_utils.is_captcha.  A page answers three      *)
(* reads: url, title() and locator(selector).count() for each of the five  *)
(* selectors; each read can raise.                                         *)

CAPTCHA_URL_MARKERS ==
    << <<"lat_s", "lat_h", "lat_o", "lat_w", "lat_c", "lat_a", "lat_p", "lat_t",
         "lat_c", "lat_h", "lat_a">>,
       <<"/", "lat_c", "lat_a", "lat_p", "lat_t", "lat_c", "lat_h", "lat_a">>,
       <<"lat_c", "lat_a", "lat_p", "lat_t", "lat_c", "lat_h", "lat_a">> >>

CAPTCHA_TITLE_KEYWORDS ==
    << <<"v", "y", " ", "n", "e", " ", "r", "o", "b", "o", "t">>,
       <<"k", "a", "p", "ch", "a">>,
       <<"lat_c", "lat_a", "lat_p", "lat_t", "lat_c", "lat_h", "lat_a">> >>

\* the selectors list of is_captcha, by position
CAPTCHA_SELECTORS == <<"sel1", "sel2", "sel3", "sel4", "sel5">>

\* the for loop over selectors, from selector i on; the loop sits in one try,
\* so a locator that raises ends the loop without a match
RECURSIVE scan_selectors(_, _, _)
scan_selectors(page, i, reads) ==
    IF i > Len(CAPTCHA_SELECTORS) THEN [result |-> FALSE, reads |-> reads]
    ELSE IF page.raise_at = i
         THEN [result |-> FALSE, reads |-> Append(reads, CAPTCHA_SELECTORS[i])]
    ELSE IF page.counts[i] > 0
         THEN [result |-> TRUE, reads |-> Append(reads, CAPTCHA_SELECTORS[i])]
    ELSE scan_selectors(page, i + 1, Append(reads, CAPTCHA_SELECTORS[i]))

\* the faulty variant in which a read that raises counts as a captcha
is_captcha_raise_matches(page) ==
    LET u == lower(page.url.text)
        t == lower(page.title.text)
    IN  IF page.url.raises \/ \E k \in 1..3 : Contains(u, CAPTCHA_URL_MARKERS[k])
        THEN [result |-> TRUE, reads |-> <<"url">>]
        ELSE IF page.title.raises
                \/ \E k \in 1..3 : Contains(t, CAPTCHA_TITLE_KEYWORDS[k])
        THEN [result |-> TRUE, reads |-> <<"url", "title">>]
        ELSE scan_selectors(page, 1, <<"url", "title">>)

\* is_captcha: the returned boolean and the reads made, in order
is_captcha(page) ==
    LET u == lower(page.url.text)
        t == lower(page.title.text)
    IN  IF ~page.url.raises /\ \E k \in 1..3 : Contains(u, CAPTCHA_URL_MARKERS[k])
        THEN [result |-> TRUE, reads |-> <<"url">>]
        ELSE IF ~page.title.raises
                /\ \E k \in 1..3 : Contains(t, CAPTCHA_TITLE_KEYWORDS[k])
        THEN [result |-> TRUE, reads |-> <<"url", "title">>]
        ELSE scan_selectors(page, 1, <<"url", "title">>)

-----------------------------------------------------------------------------
(* The captcha wait: wait_captcha_resolved and the CaptchaFlowHelper that  *)
(* run_fast_parser hands to it as action_poll.  A page handle is "base"    *)
(* (the page of the run's own context) or "visible" (the page of the       *)
(* browser opened for manual solving).                                     *)

\* CaptchaFlowHelper.__init__: nothing tried yet, no visible browser.
\* visible_open counts the visible browsers launched and not closed,
\* cookies_merged tells that the visible context's cookies were added to the
\* base context.
CaptchaFlowHelper(hl) ==
    [_headless |-> hl, _initialized |-> FALSE, _using_visible |-> FALSE,
     visible_open |-> 0, cookies_merged |-> FALSE]

\* no wait_captcha_resolved call is running
\* cycles: the click-and-reload cycles the helper made in this wait; ops: what was
\* done to which page in this wait, and whether the visible browser was open then;
\* checked: per page handle, the answer of the last is_captcha made on it
NoWait ==
    [pc |-> "off", page |-> "base", detect |-> <<>>, persists |-> <<>>,
     cycles |-> 0, ops |-> {}, checked |-> [base |-> <<>>, visible |-> <<>>]]

PageOp(op, on, visible) == [op |-> op, on |-> on, visible |-> visible]

_open_visible_browser(h) ==
    [h EXCEPT !._using_visible = TRUE, !.visible_open = @ + 1,
              !.cookies_merged = FALSE]

_swap_back_to_headless(h) ==
    [h EXCEPT !._using_visible = FALSE, !.visible_open = @ - 1,
              !.cookies_merged = TRUE]

\* CaptchaFlowHelper.poll, the branch of a first detection: _click_captcha_button and
\* _reload_captcha_page twice on the page handed in, then, headless, the 5 s wait and
\* is_captcha(page); if the captcha is still there hook("manual"),
\* _open_visible_browser and a click on the visible page, which is returned
poll_detected(h, page, captcha) ==
    LET h1 == [h EXCEPT !._initialized = TRUE]
        tried == {PageOp("click", page, h._using_visible),
                  PageOp("reload", page, h._using_visible)}
        looked == IF h._headless
                  THEN {PageOp("wait", page, h._using_visible),
                        PageOp("detect", page, h._using_visible)}
                  ELSE {}
    IN  IF h._headless /\ captcha
        THEN [helper |-> _open_visible_browser(h1), page |-> "visible",
              emitted |-> <<"manual">>, cycles |-> 2,
              ops |-> tried \cup looked \cup {PageOp("goto", "visible", TRUE),
                                               PageOp("click", "visible", TRUE)},
              checked |-> <<captcha>>]
        ELSE [helper |-> h1, page |-> page, emitted |-> <<>>, cycles |-> 2,
              ops |-> tried \cup looked,
              checked |-> IF h._headless THEN <<captcha>> ELSE <<>>]

\* CaptchaFlowHelper.poll, stage "cleared" with the visible browser in use:
\* _swap_back_to_headless closes it and reloads the base page, which is returned
poll_cleared(h) ==
    [helper |-> _swap_back_to_headless(h), page |-> "base", emitted |-> <<>>,
     cycles |-> 0, ops |-> {PageOp("swap_reload", "base", FALSE)}, checked |-> <<>>]

\* CaptchaFlowHelper.poll, every other call: `return None`
poll_none(h, page) ==
    [helper |-> h, page |-> page, emitted |-> <<>>, cycles |-> 0, ops |-> {},
     checked |-> <<>>]

\* a faulty poll that clicks and reloads again whenever the captcha is still there
poll_reenters(h, stage, page, captcha) ==
    IF (stage = "detected" /\ ~h._initialized) \/ stage = "still"
    THEN poll_detected(h, page, captcha)
    ELSE IF stage = "cleared" /\ h._using_visible
    THEN poll_cleared(h)
    ELSE poll_none(h, page)

\* a faulty poll that opens the visible browser but leaves the caller on its page
poll_keeps_page(h, stage, page, captcha) ==
    IF stage = "detected" /\ ~h._initialized
    THEN [poll_detected(h, page, captcha) EXCEPT !.page = page]
    ELSE IF stage = "cleared" /\ h._using_visible
    THEN poll_cleared(h)
    ELSE poll_none(h, page)

\* CaptchaFlowHelper.poll(stage, page); captcha is what is_captcha(page)
\* answers after the two click / reload attempts and the 5 s wait.  The
\* result holds the helper afterwards, the page handle the caller goes on
\* with, the stages handed to the hook, the click-and-reload cycles made, the
\* page operations made and the answer of the is_captcha(page) it made, if any.
poll(h, stage, page, captcha) ==
    IF stage = "detected" /\ ~h._initialized
    THEN poll_detected(h, page, captcha)
    ELSE IF stage = "cleared" /\ h._using_visible
    THEN poll_cleared(h)
    ELSE poll_none(h, page)

\* the faulty variant of the loop body that trusts the resume signal
wait_step_trusting(resume, c1, c2) ==
    IF resume THEN "cleared"
    ELSE IF ~c1 THEN (IF ~c2 THEN "cleared" ELSE "still")
    ELSE "sleep"

\* one iteration of the wait loop: resume is captcha_resume_event.is_set(),
\* c1 and c2 are the answers of the two is_captcha(page) calls
wait_step(resume, c1, c2) ==
    LET should_check == resume \/ ~c1
    IN  IF should_check THEN (IF ~c2 THEN "cleared" ELSE "still") ELSE "sleep"

-----------------------------------------------------------------------------
(* Initial values of the variable groups a specification does not use.     *)

PhoneIdle == ph_text = <<>> /\ ph_out = <<>>

RateIdle ==
    /\ rl = RateLimiter(backoff_base_s_default, backoff_max_s_default)
    /\ waits = <<>> /\ rl_fresh = TRUE

CrawlIdle ==
    /\ limit = 0 /\ all_ids = {} /\ parsed_ids = {} /\ seen_keys = {}
    /\ items = <<>> /\ idx = 0 /\ parsed_this_round = 0 /\ total = 0
    /\ dedupe_key = <<>> /\ captchas = 0 /\ ok_since_clear = FALSE
    /\ crawl_pc = "idle"

DetectIdle == dt_page = <<>> /\ dt_out = <<>>

CaptchaIdle ==
    /\ headless = FALSE /\ helper = CaptchaFlowHelper(FALSE) /\ cw = NoWait
    /\ hooks = <<>> /\ captcha_resume_event = FALSE

\* no enumeration / loading loop is running
NoLoop ==
    [clicks |-> 0, stalled |-> 0, last_count |-> 0, shadow_visible |-> FALSE,
     idle_polls |-> 0, grew |-> FALSE]

LoadIdle == ld = NoLoop /\ max_clicks = 0

\* no carousel card is being read
SerpIdle == serp_card = <<>> /\ progress_calls = <<>> /\ rl_calls = <<>>

\* no GUI object is modelled: nothing started, nothing queued
NoGui ==
    [cls |-> "", _running |-> FALSE, _log_queue |-> <<>>, threads |-> <<>>]

GuiIdle == gui = NoGui

ExtIdle == DetectIdle /\ CaptchaIdle /\ LoadIdle /\ SerpIdle /\ GuiIdle

-----------------------------------------------------------------------------
(* SpecFilter: one evaluation of passes_potential_filters.                 *)

\* no settings file is being loaded
NoConfig == [max_rating |-> <<>>, exclude_no_phone |-> FALSE, loaded |-> TRUE]

SinkIdle ==
    /\ produced = <<>> /\ writer = ExcelWriter
    /\ last_include = <<>> /\ stop_event = FALSE /\ pause_event = FALSE
    /\ mode = "slow" /\ sink_pc = "closed"

InitFilter ==
    /\ variant \in Variants
    /\ f_row \in Rows
    /\ f_settings \in AllSettings
    /\ f_result = <<>>
    /\ config = NoConfig
    /\ SinkIdle /\ PhoneIdle /\ RateIdle /\ CrawlIdle /\ ExtIdle

EvaluateRoot ==
    /\ variant = "root" /\ f_result = <<>>
    /\ f_result' = <<passes_potential_filters(f_row, f_settings)>>
    /\ UNCHANGED <<variant, f_row, f_settings, config>>
    /\ UNCHANGED <<sinkVars, phoneVars, rateVars, crawlVars, extVars>>

EvaluateApp ==
    /\ variant = "app" /\ f_result = <<>>
    /\ f_result' = <<app_passes_potential_filters(f_row, f_settings)>>
    /\ UNCHANGED <<variant, f_row, f_settings, config>>
    /\ UNCHANGED <<sinkVars, phoneVars, rateVars, crawlVars, extVars>>

NextFilter == EvaluateRoot \/ EvaluateApp

SpecFilter == InitFilter /\ [][NextFilter]_vars

-----------------------------------------------------------------------------
(* SpecConfig: the filter settings are loaded from settings.json by        *)
(* PotentialFiltersSettings.from_dict, then one record is filtered.        *)

\* the str "" that from_dict keeps as the value of max_rating
EmptyText == -2

\* the max_rating entries a settings file can hold: null, "", "abc", " ", "4,7", "4.7"
RawMaxRatings ==
    { <<>>, << <<>> >>, << <<"a", "b", "c">> >>, << <<" ">> >>,
      << <<"4", ",", "7">> >>, << Rating47 >> }

Configs ==
    { [max_rating |-> raw, exclude_no_phone |-> b, loaded |-> FALSE] :
        raw \in RawMaxRatings, b \in BOOLEAN }

\* PotentialFiltersSettings.from_dict, the max_rating entry: None and "" are kept as
\* they are, any other value goes through float(str(v).replace(",", ".")), None on failure
from_dict_max_rating(raw) ==
    IF raw = <<>> THEN None
    ELSE IF raw[1] = <<>> THEN EmptyText
    ELSE parse_float(raw[1])

\* PotentialFiltersSettings.from_dict
from_dict(data) ==
    PotentialFiltersSettings(<<>>, <<>>,
        [exclude_no_phone |-> data.exclude_no_phone, require_checkmark |-> FALSE,
         exclude_good_place |-> FALSE, exclude_noncommercial |-> FALSE,
         max_rating |-> from_dict_max_rating(data.max_rating)])

\* float(filters.max_rating) raises ValueError
float_raises(v) == v = EmptyText

\* the call passes_potential_filters(row, settings) of src/filters.py: <<its boolean>>,
\* or the exception that leaves it.  Rule 6 is reached when rules 1 to 5 reject nothing.
call_passes_potential_filters(row, filters) ==
    LET upto5 == [filters EXCEPT !.max_rating = None, !.exclude_noncommercial = FALSE]
    IN  IF /\ passes_potential_filters(row, upto5)
           /\ filters.max_rating # None /\ _get_rating(row) # None
           /\ float_raises(filters.max_rating)
        THEN <<"ValueError", "float">>
        ELSE <<passes_potential_filters(row, filters)>>

InitConfig ==
    /\ variant = "root"
    /\ f_row \in Rows
    /\ config \in Configs
    /\ f_settings = PotentialFiltersSettings(<<>>, <<>>,
                        [exclude_no_phone |-> FALSE, require_checkmark |-> FALSE,
                         exclude_good_place |-> FALSE, exclude_noncommercial |-> FALSE,
                         max_rating |-> None])
    /\ f_result = <<>>
    /\ SinkIdle /\ PhoneIdle /\ RateIdle /\ CrawlIdle /\ ExtIdle

\* settings_store.load_settings: Settings.from_dict(data)
LoadSettings ==
    /\ ~config.loaded
    /\ f_settings' = from_dict(config)
    /\ config' = [config EXCEPT !.loaded = TRUE]
    /\ UNCHANGED <<variant, f_row, f_result>>
    /\ UNCHANGED <<sinkVars, phoneVars, rateVars, crawlVars, extVars>>

\* include = passes_potential_filters(org, settings) with the loaded settings
EvaluateLoaded ==
    /\ config.loaded /\ f_result = <<>>
    /\ f_result' = call_passes_potential_filters(f_row, f_settings)
    /\ UNCHANGED <<variant, f_row, f_settings, config>>
    /\ UNCHANGED <<sinkVars, phoneVars, rateVars, crawlVars, extVars>>

NextConfig == LoadSettings \/ EvaluateLoaded

SpecConfig == InitConfig /\ [][NextConfig]_vars

-----------------------------------------------------------------------------
(* SpecSink: the orchestrator forwards the collector's records to the sink.*)
(* "slow": _run_slow consumes the generator record by record.              *)
(* "fast": run_fast_parser collects all rows first, then writes them.      *)

MaxProduced == 2

BaseFields == [phone |-> PhoneA, verified |-> "sinyaya", award |-> <<>>, rating |-> <<>>]

SinkRows ==
    { Organization(n, [BaseFields EXCEPT !.rating = r]) :
        n \in { <<"K", "o", "f", "e", "j", "n", "ya">>,
                <<"K", "o", "f", "e", " ", "i", " ", "sh", "k", "o", "l", "a">> },
        r \in {<<>>, Rating48, Rating49c, Rating47, RatingLabel} }

SinkSettings ==
    { st \in AllSettings :
        /\ st.white_list \in {<<>>, <<"k", "o", "f", "e">>}
        /\ st.stop_words \in {<<>>, <<"sh", "k", "o", "l", "a">>}
        /\ ~st.exclude_no_phone /\ ~st.require_checkmark
        /\ ~st.exclude_good_place /\ ~st.exclude_noncommercial }

InitSink ==
    /\ variant \in Variants
    /\ f_settings \in SinkSettings
    /\ f_row = Organization(<<>>, BaseFields)
    /\ f_result = <<>>
    /\ config = NoConfig
    /\ mode \in {"slow", "fast"}
    /\ produced = <<>>
    /\ writer = ExcelWriter
    /\ last_include = <<>>
    /\ stop_event = FALSE
    /\ pause_event = FALSE
    /\ sink_pc = IF mode = "fast" THEN "collect" ELSE "loop"
    /\ PhoneIdle /\ RateIdle /\ CrawlIdle /\ ExtIdle

\* the collector yields a record: the generator of scraper.run() in slow mode,
\* rows.append followed by _rows_to_organizations in fast mode
Yield(org) ==
    /\ Len(produced) < MaxProduced
    /\ \/ mode = "slow" /\ sink_pc = "loop"
       \/ mode = "fast" /\ sink_pc = "collect"
    /\ produced' = Append(produced, org)
    /\ sink_pc' = IF mode = "slow" THEN "body" ELSE "collect"
    /\ UNCHANGED <<writer, last_include, stop_event, pause_event, mode>>
    /\ UNCHANGED <<filterVars, phoneVars, rateVars, crawlVars, extVars>>

\* the collector is exhausted
CollectorDone ==
    /\ \/ mode = "slow" /\ sink_pc = "loop" /\ sink_pc' = "closed"
                        /\ writer' = close(writer)
       \/ mode = "fast" /\ sink_pc = "collect" /\ sink_pc' = "loop"
                        /\ writer' = writer
    /\ UNCHANGED <<produced, last_include, stop_event, pause_event, mode>>
    /\ UNCHANGED <<filterVars, phoneVars, rateVars, crawlVars, extVars>>

\* _run_slow, first statement of the loop body: `if stop: break`, finally close()
SlowCheckStop ==
    /\ mode = "slow" /\ sink_pc = "body"
    /\ IF stop_event
       THEN sink_pc' = "closed" /\ writer' = close(writer)
       ELSE sink_pc' = "pause_wait" /\ writer' = writer
    /\ UNCHANGED <<produced, last_include, stop_event, pause_event, mode>>
    /\ UNCHANGED <<filterVars, phoneVars, rateVars, crawlVars, extVars>>

\* _run_slow: after the pause wait, include = passes(...); writer.append(org, include)
SlowForward ==
    /\ mode = "slow" /\ sink_pc = "pause_wait"
    /\ ~pause_event \/ stop_event
    /\ LET org == produced[Len(produced)]
           include == Passes(variant, org, f_settings)
       IN  /\ writer' = append(writer, org, include)
           /\ last_include' = <<include>>
    /\ sink_pc' = "loop"
    /\ UNCHANGED <<produced, stop_event, pause_event, mode>>
    /\ UNCHANGED <<filterVars, phoneVars, rateVars, crawlVars, extVars>>

\* run_fast_parser: one iteration of `for org in organizations`
FastForward ==
    /\ mode = "fast" /\ sink_pc = "loop"
    /\ IF Len(writer.full_sheet) = Len(produced) \/ stop_event
       THEN /\ sink_pc' = "closed"
            /\ writer' = close(writer)
            /\ last_include' = last_include
       ELSE LET org == produced[Len(writer.full_sheet) + 1]
                include == Passes(variant, org, f_settings)
            IN  /\ writer' = append(writer, org, include)
                /\ last_include' = <<include>>
                /\ sink_pc' = "loop"
    /\ UNCHANGED <<produced, stop_event, pause_event, mode>>
    /\ UNCHANGED <<filterVars, phoneVars, rateVars, crawlVars, extVars>>

\* self._running: a worker is at work
_running == sink_pc # "closed" \/ crawl_pc \notin {"idle", "done", "closed"}

\* gui._on_stop
OnStop ==
    /\ _running
    /\ stop_event' = TRUE
    /\ pause_event' = FALSE
    /\ captcha_resume_event' = TRUE
    /\ UNCHANGED <<produced, writer, last_include, mode, sink_pc>>
    /\ UNCHANGED <<filterVars, phoneVars, rateVars, crawlVars, detectVars, runVars, loadVars, serpVars, captchaRest>>

\* gui._on_pause
OnPause ==
    /\ _running
    /\ pause_event' = TRUE
    /\ UNCHANGED <<produced, writer, last_include, stop_event, mode, sink_pc>>
    /\ UNCHANGED <<filterVars, phoneVars, rateVars, crawlVars, extVars>>

\* gui._on_resume
OnResume ==
    /\ _running
    /\ pause_event' = FALSE
    /\ captcha_resume_event' = TRUE
    /\ UNCHANGED <<produced, writer, last_include, stop_event, mode, sink_pc>>
    /\ UNCHANGED <<filterVars, phoneVars, rateVars, crawlVars, detectVars, runVars, loadVars, serpVars, captchaRest>>

NextSink ==
    \/ \E org \in SinkRows : Yield(org)
    \/ CollectorDone
    \/ SlowCheckStop
    \/ SlowForward
    \/ FastForward
    \/ OnStop
    \/ OnPause
    \/ OnResume

SpecSink == InitSink /\ [][NextSink]_vars

-----------------------------------------------------------------------------
(* SpecPhone: one card's phone text becomes Organization.phone.            *)

MaxFragments == 3

PhoneFragments ==
    { <<"+", "7", " ", "(", "4", "9", "5", ")", " ", "1", "1", "1", "-", "2", "2",
        "-", "3", "3">>,
      <<"8", " ", "8", "0", "0", " ", "5", "5", "5", "-", "3", "5", "-", "3", "5">>,
      <<",", " ">>,
      <<"d", "o", "b", ".", " ", "1", "2">>,
      <<"7", "4", "9", "5", "1", "1", "1", "2", "2", "3">>,
      <<"t", "e", "l", ":", " ">> }

RECURSIVE Concats(_)
Concats(n) ==
    IF n = 0 THEN {<<>>}
    ELSE Concats(n - 1) \cup { t \o f : t \in Concats(n - 1), f \in PhoneFragments }

PhoneTexts == Concats(MaxFragments)

FilterIdle ==
    /\ variant = "root" /\ f_row = Organization(<<>>, BaseFields)
    /\ f_settings \in {st \in SinkSettings :
                          st.white_list = <<>> /\ st.stop_words = <<>> /\ st.max_rating = None}
    /\ f_result = <<>>
    /\ config = NoConfig

InitPhone ==
    /\ ph_text \in PhoneTexts
    /\ ph_out = <<>>
    /\ mode \in {"slow", "fast"}
    /\ produced = <<>> /\ writer = ExcelWriter /\ last_include = <<>>
    /\ stop_event = FALSE /\ pause_event = FALSE /\ sink_pc = "closed"
    /\ FilterIdle /\ RateIdle /\ CrawlIdle /\ ExtIdle

\* YandexMapsScraper._parse_card: phone = _normalize_phone(_safe_text(...))
ParseCardPhone ==
    /\ mode = "slow" /\ ph_out = <<>>
    /\ ph_out' = <<_normalize_phone(sanitize_text(ph_text))>>
    /\ UNCHANGED <<ph_text, filterVars, sinkVars, rateVars, crawlVars, extVars>>

\* parse_serp_cards: phones = _extract_phone_from_main_button(card), then
\* _rows_to_organizations: phone = row["phones"]
SerpCardPhone ==
    /\ mode = "fast" /\ ph_out = <<>>
    /\ ph_out' = <<_extract_phone_from_main_button(sanitize_text(ph_text))>>
    /\ UNCHANGED <<ph_text, filterVars, sinkVars, rateVars, crawlVars, extVars>>

NextPhone == ParseCardPhone \/ SerpCardPhone

SpecPhone == InitPhone /\ [][NextPhone]_vars

-----------------------------------------------------------------------------
(* SpecRate: a RateLimiter and the calls made on it.                       *)

MaxBackoff == 4
MaxCalls == 4

InitRate ==
    /\ \E b \in 0..MaxBackoff, m \in 0..MaxBackoff : rl = RateLimiter(b, m)
    /\ waits = <<>>
    /\ rl_fresh = TRUE
    /\ FilterIdle /\ SinkIdle /\ PhoneIdle /\ CrawlIdle /\ ExtIdle

\* rate_limiter.wait_backoff(stop_event, None)
WaitBackoff ==
    /\ Len(waits) < MaxCalls
    /\ waits' = Append(waits, backoff_delay(rl))
    /\ rl' = wait_backoff(rl)
    /\ UNCHANGED <<rl_fresh, filterVars, sinkVars, phoneVars, crawlVars, extVars>>

\* rate_limiter.reset_backoff()
ResetBackoff ==
    /\ rl' = reset_backoff(rl)
    /\ waits' = <<>>
    /\ rl_fresh' = TRUE
    /\ UNCHANGED <<filterVars, sinkVars, phoneVars, crawlVars, extVars>>

\* _apply_rate_limiter_settings with a settings getter: base and max are
\* reassigned, _backoff_s is left as it is
ApplyRateLimiterSettings(b, m) ==
    /\ rl' = _apply_rate_limiter_settings(rl, b, m)
    /\ rl' # rl
    /\ waits' = <<>>
    /\ rl_fresh' = FALSE
    /\ UNCHANGED <<filterVars, sinkVars, phoneVars, crawlVars, extVars>>

\* rate_limiter.maybe_batch_pause(index, batch_every_n, batch_pause_s, stop_event,
\* pause_event) followed by rate_limiter.wait_action(stop_event, pause_event)
MaybeBatchPause(index, batch_every_n) ==
    /\ rl_calls' = rate_calls(index, batch_every_n)
    /\ rl_calls' # rl_calls
    /\ UNCHANGED <<rateVars, filterVars, sinkVars, phoneVars, crawlVars, detectVars, runVars,
                   captchaVars, loadVars, serp_card, progress_calls>>

NextRate ==
    \/ WaitBackoff
    \/ ResetBackoff
    \/ \E index \in 1..MaxCalls, batch_every_n \in -1..2 :
          MaybeBatchPause(index, batch_every_n)
    \/ \E b \in 0..MaxBackoff, m \in 0..MaxBackoff : ApplyRateLimiterSettings(b, m)

SpecRate == InitRate /\ [][NextRate]_vars

-----------------------------------------------------------------------------
(* SpecDetect: one call of is_captcha on a page.                           *)

UrlSearch ==
    <<"lat_y", "lat_a", ".", "lat_r", "lat_u", "/", "lat_s", "lat_e", "lat_a",
      "lat_r", "lat_c", "lat_h">>
UrlShowCaptcha ==
    <<"lat_y", "lat_a", ".", "lat_r", "lat_u", "/", "lat_s", "lat_h", "lat_o",
      "lat_w", "lat_c", "lat_a", "lat_p", "lat_t", "lat_c", "lat_h", "lat_a">>
UrlShowCaptchaUpper ==
    <<"lat_y", "lat_a", ".", "lat_r", "lat_u", "/", "LAT_S", "lat_h", "lat_o",
      "lat_w", "LAT_C", "lat_a", "lat_p", "lat_t", "lat_c", "lat_h", "lat_a">>
UrlCapture ==
    <<"lat_y", "lat_a", ".", "lat_r", "lat_u", "/", "lat_c", "lat_a", "lat_p",
      "lat_t", "lat_u", "lat_r", "lat_e">>

TitleCafe == <<"K", "a", "f", "e">>
TitleRobot == <<"V", "y", " ", "n", "e", " ", "r", "o", "b", "o", "t", "?">>
TitleKapcha == <<"K", "a", "p", "ch", "a">>
TitleCaptcha == <<"LAT_C", "lat_a", "lat_p", "lat_t", "lat_c", "lat_h", "lat_a">>

\* a read: the text it yields (page.url or "", page.title() or ""), or it raises
Reads(texts) ==
    [raises : {FALSE}, text : texts] \cup {[raises |-> TRUE, text |-> <<>>]}

Pages ==
    [url : Reads({<<>>, UrlSearch, UrlShowCaptcha, UrlShowCaptchaUpper, UrlCapture}),
     title : Reads({<<>>, TitleCafe, TitleRobot, TitleKapcha, TitleCaptcha}),
     counts : [1..Len(CAPTCHA_SELECTORS) -> {0, 1}],
     raise_at : 0..Len(CAPTCHA_SELECTORS)]

InitDetect ==
    /\ dt_page \in Pages
    /\ dt_out = <<>>
    /\ FilterIdle /\ SinkIdle /\ PhoneIdle /\ RateIdle /\ CrawlIdle /\ CaptchaIdle
    /\ LoadIdle /\ SerpIdle /\ GuiIdle

Detect ==
    /\ dt_out = <<>>
    /\ dt_out' = <<is_captcha(dt_page)>>
    /\ UNCHANGED <<dt_page, filterVars, sinkVars, phoneVars, rateVars, crawlVars,
                   captchaVars, loadVars, serpVars, runVars>>

NextDetect == Detect

SpecDetect == InitDetect /\ [][NextDetect]_vars

-----------------------------------------------------------------------------
(* Spec: one crawl run of a collector, panel enumeration (mode "slow",     *)
(* YandexMapsScraper) or carousel iteration (mode "fast", parse_serp_cards),*)
(* with a visible browser window (headless off).                           *)

MaxLimit == 2
MaxVisible == 2
MaxCards == 3
MaxCaptchas == 2
MaxStill == 1

Ids == {"101", "102"}

\* the data-id sequences page.locator(list_item_selector) can show in one round
VisibleLists ==
    UNION { [1..n -> Ids \cup {""}] : n \in 0..MaxVisible }

Last(seq) == seq[Len(seq)]

\* YandexMapsScraper._normalize_card_url; a URL is the sequence of its path segments
_normalize_card_url(href, org_id) ==
    IF href = <<>> THEN <<>>
    ELSE IF ~(Len(href) >= 2 /\ href[1] = "maps" /\ href[2] = "org") THEN <<>>
    ELSE IF org_id # "" /\ Last(href) # org_id THEN Append(href, org_id)
    ELSE href

\* the href of the title link of the detail card of organisation c
CardHrefs(c) == { <<>>, <<"maps", "org", c>>, <<"search", c>> }

\* YandexMapsScraper._parse_card, the fields the run depends on
_parse_card(card, href, org_id) ==
    [name |-> <<card>>, card_url |-> _normalize_card_url(href, org_id)]

\* a skip test that forgets the identifiers already parsed
should_skip_unparsed_only(org_id, ids, parsed) ==
    org_id = "" \/ org_id \notin ids

\* _collect_organizations: `not org_id or org_id not in all_ids or org_id in parsed_ids`
should_skip(org_id, ids, parsed) ==
    org_id = "" \/ org_id \notin ids \/ org_id \in parsed

limit_reached(n) == limit # 0 /\ n >= limit

\* parser_search._extract_oid_from_href
_extract_oid_from_href(href) ==
    IF href = <<>> THEN ""
    ELSE IF href[1] = "profile" /\ Len(href) >= 2 /\ href[2] # "" THEN href[2]
    ELSE IF Len(href) >= 3 /\ href[Len(href) - 1] = "?oid" THEN Last(href)
    ELSE ""

\* the profile links a carousel card can carry
CardUrls ==
    {<<>>, <<"site">>} \cup { <<"profile", i>> : i \in Ids }
        \cup { <<"maps", "?oid", i>> : i \in Ids }

CardNames == {"A", "B"}

Reviews == "5"

\* a key that ignores the identifier of the profile link
DedupeKey_name_only(name, reviews, card_url) == <<name, "|", reviews>>

\* parse_serp_cards: dedupe_key = oid or f"{name}|{reviews}"
DedupeKey(name, reviews, card_url) ==
    LET oid == _extract_oid_from_href(card_url)
    IN  IF oid # "" THEN <<oid>> ELSE <<name, "|", reviews>>

\* a payload that carries the zero-based loop index
progress_payload_zero_based(i, n) == [index |-> i, total |-> n]

\* parse_serp_cards: progress({"phase": "serp_parse", "index": idx + 1, "total": total,
\* "rows": len(rows)}), the keys the caller's progress_cb reads
progress_payload(i, n) == [index |-> i + 1, total |-> n]

\* parse_serp_cards: the row dict of one card; good_place is always ""
Row(name, rating, verified, phones, website, card_url) ==
    [name |-> name, rating |-> rating, reviews |-> Reviews, good_place |-> <<>>,
     badge_blue |-> IF verified THEN 1 ELSE 0, phones |-> phones,
     website |-> website, url |-> card_url]

\* _rows_to_organizations, for one row: badge = "sinyaya" if badge_blue else ""
_rows_to_organizations(row) ==
    [name |-> row.name, phone |-> row.phones,
     verified |-> IF row.badge_blue # 0 THEN "sinyaya" ELSE "",
     award |-> row.good_place, website |-> row.website, card_url |-> row.url,
     rating |-> row.rating]

Init ==
    /\ mode \in {"slow", "fast"}
    /\ limit \in 0..MaxLimit
    /\ all_ids = {} /\ parsed_ids = {} /\ seen_keys = {}
    /\ items = <<>> /\ idx = 0 /\ parsed_this_round = 0 /\ total = 0
    /\ dedupe_key = <<>> /\ captchas = 0 /\ ok_since_clear = FALSE
    /\ crawl_pc = "start"
    /\ rl = RateLimiter(backoff_base_s_default, backoff_max_s_default)
    /\ waits = <<>> /\ rl_fresh = TRUE
    /\ produced = <<>> /\ writer = ExcelWriter /\ last_include = <<>>
    /\ stop_event = FALSE /\ pause_event = FALSE /\ sink_pc = "closed"
    /\ headless = FALSE
    /\ helper = CaptchaFlowHelper(headless) /\ cw = NoWait
    /\ hooks = <<>> /\ captcha_resume_event = FALSE
    /\ FilterIdle /\ PhoneIdle /\ DetectIdle /\ GuiIdle /\ LoadIdle /\ SerpIdle

crawlBase1 ==
    <<filterVars, phoneVars, writer, last_include, mode, sink_pc, limit, detectVars, runVars, loadVars>>

crawlBase == <<crawlBase1, serpVars>>

crawlRest == <<crawlBase, captchaVars>>

\* _collect_all_ids, first line: all_ids = set(self._collect_visible_ids(page))
CollectVisibleIds(visible) ==
    /\ mode = "slow" /\ crawl_pc = "start"
    /\ all_ids' = visible
    /\ crawl_pc' = "prescan"
    /\ UNCHANGED <<parsed_ids, seen_keys, items, idx, parsed_this_round, total,
                   dedupe_key, captchas, ok_since_clear>>
    /\ UNCHANGED <<produced, stop_event, pause_event, rateVars, crawlRest>>

\* _collect_all_ids, one pass of `while True`, then (when it ends) lines 166-176
\* of _collect_organizations.  ended: the list did not move and the idle wait
\* brought no new identifier.
PreScroll(new_ids, ended) ==
    /\ mode = "slow" /\ crawl_pc = "prescan"
    /\ IF limit_reached(Cardinality(all_ids))
       THEN /\ all_ids' = all_ids
            /\ total' = Cardinality(all_ids)
            /\ crawl_pc' = IF total' = 0 THEN "done" ELSE "round"
       ELSE /\ all_ids' = all_ids \cup new_ids
            /\ total' = IF ended THEN Cardinality(all_ids') ELSE total
            /\ crawl_pc' = IF ~ended THEN "prescan"
                           ELSE IF total' = 0 THEN "done" ELSE "round"
    /\ UNCHANGED <<parsed_ids, seen_keys, items, idx, parsed_this_round,
                   dedupe_key, captchas, ok_since_clear>>
    /\ UNCHANGED <<produced, stop_event, pause_event, rateVars, crawlRest>>

\* _collect_organizations: head of `while len(parsed_ids) < total`
RoundHead(visible) ==
    /\ mode = "slow" /\ crawl_pc = "round"
    /\ IF Cardinality(parsed_ids) >= total \/ limit_reached(Cardinality(parsed_ids))
       THEN crawl_pc' = "done" /\ UNCHANGED <<items, idx, parsed_this_round>>
       ELSE /\ items' = visible
            /\ idx' = 1
            /\ parsed_this_round' = 0
            /\ crawl_pc' = IF Len(visible) = 0 THEN "done" ELSE "item"
    /\ UNCHANGED <<all_ids, parsed_ids, seen_keys, total, dedupe_key, captchas,
                   ok_since_clear>>
    /\ UNCHANGED <<produced, stop_event, pause_event, rateVars, crawlRest>>

\* _collect_organizations: one iteration of `for index in range(count)`.
\* click_ok: _click_list_item_wrapper succeeded; card: the data-id of the card
\* _wait_for_card returned ("" = none, the wait for the card of org_id and the
\* wait for any card both timed out; another id = the fallback card).
ProcessItem(click_ok, card, href) ==
    /\ mode = "slow" /\ crawl_pc = "item" /\ idx <= Len(items)
    /\ LET org_id == items[idx]
       IN  IF should_skip(org_id, all_ids, parsed_ids)
           THEN /\ idx' = idx + 1
                /\ UNCHANGED <<parsed_ids, parsed_this_round, produced, crawl_pc>>
           ELSE IF limit_reached(Cardinality(parsed_ids))
           THEN /\ crawl_pc' = "done"
                /\ UNCHANGED <<idx, parsed_ids, parsed_this_round, produced>>
           ELSE IF ~click_ok
           THEN /\ idx' = idx + 1
                /\ UNCHANGED <<parsed_ids, parsed_this_round, produced, crawl_pc>>
           ELSE IF card = ""
           THEN /\ idx' = idx + 1
                /\ crawl_pc' = "card_missing"
                /\ UNCHANGED <<parsed_ids, parsed_this_round, produced>>
           ELSE /\ produced' = Append(produced, _parse_card(card, href, org_id))
                /\ parsed_ids' = parsed_ids \cup {org_id}
                /\ parsed_this_round' = parsed_this_round + 1
                /\ idx' = idx + 1
                /\ crawl_pc' = "yielded"
    /\ UNCHANGED <<all_ids, seen_keys, items, total, dedupe_key, captchas, ok_since_clear>>
    /\ UNCHANGED <<stop_event, pause_event, rateVars, crawlRest>>

\* _collect_organizations: `if not card:` the miss is logged, `continue`
CardMissing ==
    /\ mode = "slow" /\ crawl_pc = "card_missing"
    /\ crawl_pc' = "item"
    /\ UNCHANGED <<limit, all_ids, parsed_ids, seen_keys, items, idx, parsed_this_round,
                   total, dedupe_key, captchas, ok_since_clear>>
    /\ UNCHANGED <<filterVars, sinkVars, phoneVars, rateVars, extVars>>

\* the consumer of the generator: `if stop_event.is_set(): break`, else the
\* generator is resumed
Consume ==
    /\ mode = "slow" /\ crawl_pc = "yielded"
    /\ crawl_pc' = IF stop_event THEN "done" ELSE "item"
    /\ UNCHANGED <<limit, all_ids, parsed_ids, seen_keys, items, idx, parsed_this_round,
                   total, dedupe_key, captchas, ok_since_clear>>
    /\ UNCHANGED <<filterVars, sinkVars, phoneVars, rateVars, extVars>>

\* _collect_organizations: after the for loop, scroll and the stall test
RoundEnd(moved) ==
    /\ mode = "slow" /\ crawl_pc = "item" /\ idx > Len(items)
    /\ crawl_pc' = IF parsed_this_round = 0 /\ ~moved THEN "done" ELSE "round"
    /\ UNCHANGED <<limit, all_ids, parsed_ids, seen_keys, items, idx, parsed_this_round,
                   total, dedupe_key, captchas, ok_since_clear>>
    /\ UNCHANGED <<filterVars, sinkVars, phoneVars, rateVars, extVars>>

\* parse_serp_cards, first statement: is_captcha(page) before any card is loaded
EntryCaptchaCheck(captcha) ==
    /\ mode = "fast" /\ crawl_pc = "start"
    /\ crawl_pc' = IF captcha THEN "entry_captcha_wait" ELSE "load"
    /\ captchas' = IF captcha THEN captchas + 1 ELSE captchas
    /\ UNCHANGED <<all_ids, parsed_ids, seen_keys, items, idx, parsed_this_round, total,
                   dedupe_key, ok_since_clear>>
    /\ UNCHANGED <<produced, stop_event, pause_event, rateVars, crawlRest>>

\* parse_serp_cards: _load_all_cards and total = cards.count()
LoadAllCards(count) ==
    /\ mode = "fast" /\ crawl_pc = "load"
    /\ total' = count
    /\ idx' = 0
    /\ crawl_pc' = "card_top"
    /\ UNCHANGED <<all_ids, parsed_ids, seen_keys, items, parsed_this_round,
                   dedupe_key, captchas, ok_since_clear>>
    /\ UNCHANGED <<produced, stop_event, pause_event, rateVars, crawlRest>>

\* parse_serp_cards: top of `for idx in range(total)`: the stop test
CardTop ==
    /\ mode = "fast" /\ crawl_pc = "card_top"
    /\ crawl_pc' = IF idx >= total \/ stop_event THEN "done" ELSE "pause_wait"
    /\ UNCHANGED <<limit, all_ids, parsed_ids, seen_keys, items, idx, parsed_this_round,
                   total, dedupe_key, captchas, ok_since_clear>>
    /\ UNCHANGED <<filterVars, sinkVars, phoneVars, rateVars, extVars>>

\* parse_serp_cards: `while pause and not stop: sleep`, then is_captcha(page)
CheckCaptcha(captcha) ==
    /\ mode = "fast" /\ crawl_pc = "pause_wait"
    /\ ~pause_event \/ stop_event
    /\ captcha => captchas < MaxCaptchas
    /\ crawl_pc' = IF captcha THEN "captcha_wait" ELSE "card"
    /\ captchas' = IF captcha THEN captchas + 1 ELSE captchas
    /\ UNCHANGED <<all_ids, parsed_ids, seen_keys, items, idx, parsed_this_round, total,
                   dedupe_key, ok_since_clear>>
    /\ UNCHANGED <<produced, stop_event, pause_event, rateVars, crawlRest>>

CaptchaWaitPcs == {"entry_captcha_wait", "captcha_wait"}

Count(seq, x) == Cardinality({i \in 1..Len(seq) : seq[i] = x})

\* wait_captcha_resolved up to its loop: action_poll("detected", page), then
\* hook("detected"), then captcha_resume_event.clear().  persists tells
\* whether the page still shows the captcha after the helper's attempts.
WaitEnter(persists) ==
    /\ mode = "fast" /\ crawl_pc \in CaptchaWaitPcs /\ cw.pc = "off"
    /\ LET p == poll(helper, "detected", "base", persists)
       IN  /\ helper' = p.helper
           /\ hooks' = p.emitted \o <<"detected">>
           /\ cw' = [pc |-> "loop", page |-> p.page, detect |-> <<>>,
                     persists |-> <<persists>>, cycles |-> p.cycles, ops |-> p.ops,
                     checked |-> [base |-> IF p.checked # <<>> THEN p.checked
                                           ELSE <<TRUE>>,
                                  visible |-> <<>>]]
    /\ captcha_resume_event' = FALSE
    /\ UNCHANGED <<all_ids, parsed_ids, seen_keys, items, idx, parsed_this_round, total,
                   dedupe_key, captchas, ok_since_clear, crawl_pc>>
    /\ UNCHANGED <<produced, stop_event, pause_event, rateVars, crawlBase, headless>>

\* wait_captcha_resolved: one iteration of `while not stop_event.is_set()`;
\* cw.detect keeps the answer of the last is_captcha(page) of the iteration
WaitPoll(c1, c2) ==
    /\ mode = "fast" /\ crawl_pc \in CaptchaWaitPcs /\ cw.pc = "loop"
    /\ ~stop_event
    /\ LET p0 == poll(helper, "poll", cw.page, c1)
           st == wait_step(captcha_resume_event, c1, c2)
           vis == p0.helper._using_visible
           looked == (IF captcha_resume_event THEN {}
                      ELSE {PageOp("detect", p0.page, vis)})
                     \cup (IF st = "sleep" THEN {}
                           ELSE {PageOp("load_state", p0.page, vis),
                                 PageOp("detect", p0.page, vis)})
           slept == {PageOp("timeout", p0.page, vis)}
           answer == IF st = "sleep" THEN <<c1>> ELSE <<c2>>
           seen == [cw.checked EXCEPT ![p0.page] = answer]
           p == IF st = "cleared" THEN poll(p0.helper, "cleared", p0.page, c2)
                ELSE IF st = "still" THEN poll(p0.helper, "still", p0.page, c2)
                ELSE poll_none(p0.helper, p0.page)
           wait == [cw EXCEPT !.page = p.page, !.detect = answer,
                              !.cycles = @ + p0.cycles + p.cycles,
                              !.checked = seen]
       IN  /\ helper' = p.helper
           /\ CASE st = "cleared" ->
                  /\ hooks' = Append(hooks, "cleared")
                  /\ cw' = [wait EXCEPT !.pc = "backoff",
                                        !.ops = @ \cup p0.ops \cup looked \cup p.ops]
                  /\ captcha_resume_event' = FALSE
             [] st = "still" ->
                  /\ Count(hooks, "still") < MaxStill
                  /\ hooks' = Append(hooks, "still")
                  /\ cw' = [wait EXCEPT
                              !.ops = @ \cup p0.ops \cup looked \cup p.ops \cup slept]
                  /\ captcha_resume_event' = FALSE
             [] st = "sleep" ->
                  /\ cw' = [wait EXCEPT !.ops = @ \cup p0.ops \cup looked \cup slept]
                  /\ UNCHANGED <<hooks, captcha_resume_event>>
    /\ UNCHANGED <<all_ids, parsed_ids, seen_keys, items, idx, parsed_this_round, total,
                   dedupe_key, captchas, ok_since_clear, crawl_pc>>
    /\ UNCHANGED <<produced, stop_event, pause_event, rateVars, crawlBase, headless>>

\* wait_captcha_resolved after hook("cleared"): rate_limiter.wait_backoff(stop_event,
\* None) is over (slept out, or cut short by stop), `return page`; parse_serp_cards
\* goes on with the returned page
BackoffDone ==
    /\ mode = "fast" /\ crawl_pc \in CaptchaWaitPcs /\ cw.pc = "backoff"
    /\ waits' = Append(waits, backoff_delay(rl))
    /\ rl' = wait_backoff(rl)
    /\ ok_since_clear' = FALSE
    /\ crawl_pc' = IF crawl_pc = "captcha_wait" THEN "card" ELSE "load"
    /\ cw' = NoWait
    /\ hooks' = <<>>
    /\ UNCHANGED <<all_ids, parsed_ids, seen_keys, items, idx, parsed_this_round, total,
                   dedupe_key, captchas, rl_fresh>>
    /\ UNCHANGED <<produced, stop_event, pause_event, crawlBase, headless, helper,
                   captcha_resume_event>>

\* wait_captcha_resolved: the loop test finds stop set, `return None`;
\* parse_serp_cards breaks / returns []
CaptchaStopped ==
    /\ mode = "fast" /\ crawl_pc \in CaptchaWaitPcs /\ cw.pc = "loop"
    /\ stop_event
    /\ crawl_pc' = "done"
    /\ cw' = NoWait
    /\ hooks' = <<>>
    /\ UNCHANGED <<limit, all_ids, parsed_ids, seen_keys, items, idx, parsed_this_round,
                   total, dedupe_key, captchas, ok_since_clear>>
    /\ UNCHANGED <<filterVars, sinkVars, phoneVars, rateVars, detectVars, runVars, loadVars, serpVars, headless,
                   helper, captcha_resume_event>>

\* parse_serp_cards: the rest of the loop body for the card at idx
ParseSerpCard(name, card_url) ==
    /\ mode = "fast" /\ crawl_pc = "card"
    /\ dedupe_key' = DedupeKey(name, Reviews, card_url)
    /\ IF dedupe_key' \in seen_keys
       THEN UNCHANGED <<seen_keys, produced, ok_since_clear, progress_calls, rl_calls>>
       ELSE /\ seen_keys' = seen_keys \cup {dedupe_key'}
            /\ produced' = Append(produced, _rows_to_organizations(
                                Row(<<name>>, <<>>, FALSE, <<>>, <<>>, card_url)))
            /\ ok_since_clear' = (waits # <<>>)
            /\ progress_calls' = Append(progress_calls, progress_payload(idx, total))
            /\ rl_calls' = rate_calls(idx + 1, batch_every_n_default)
    /\ idx' = idx + 1
    /\ crawl_pc' = "card_top"
    /\ UNCHANGED <<all_ids, parsed_ids, items, parsed_this_round, total, captchas>>
    /\ UNCHANGED <<stop_event, pause_event, rateVars, crawlBase1, serp_card, captchaVars>>

Next ==
    \/ \E visible \in SUBSET Ids : CollectVisibleIds(visible)
    \/ \E new_ids \in SUBSET Ids, ended \in BOOLEAN : PreScroll(new_ids, ended)
    \/ \E visible \in VisibleLists : RoundHead(visible)
    \/ \E click_ok \in BOOLEAN, card \in Ids \cup {""} :
          \E href \in CardHrefs(card) : ProcessItem(click_ok, card, href)
    \/ CardMissing
    \/ Consume
    \/ \E moved \in BOOLEAN : RoundEnd(moved)
    \/ \E captcha \in BOOLEAN : EntryCaptchaCheck(captcha)
    \/ \E count \in 0..MaxCards : LoadAllCards(count)
    \/ CardTop
    \/ \E captcha \in BOOLEAN : CheckCaptcha(captcha)
    \/ \E persists \in BOOLEAN : WaitEnter(persists)
    \/ \E c1 \in BOOLEAN, c2 \in BOOLEAN : WaitPoll(c1, c2)
    \/ BackoffDone
    \/ CaptchaStopped
    \/ \E name \in CardNames, card_url \in CardUrls : ParseSerpCard(name, card_url)
    \/ OnStop
    \/ OnPause
    \/ OnResume

Spec == Init /\ [][Next]_vars

-----------------------------------------------------------------------------
(* SpecCaptcha: one carousel run (run_fast_parser) with headless on or     *)
(* off, from the first is_captcha test of parse_serp_cards to the end of   *)
(* the `with sync_playwright()` block.                                     *)

InitCaptcha ==
    /\ mode = "fast"
    /\ limit = 0
    /\ all_ids = {} /\ parsed_ids = {} /\ seen_keys = {}
    /\ items = <<>> /\ idx = 0 /\ parsed_this_round = 0 /\ total = 0
    /\ dedupe_key = <<>> /\ captchas = 0 /\ ok_since_clear = FALSE
    /\ crawl_pc = "start"
    /\ rl = RateLimiter(backoff_base_s_default, backoff_max_s_default)
    /\ waits = <<>> /\ rl_fresh = TRUE
    /\ produced = <<>> /\ writer = ExcelWriter /\ last_include = <<>>
    /\ stop_event = FALSE /\ pause_event = FALSE /\ sink_pc = "closed"
    /\ headless \in BOOLEAN
    /\ helper = CaptchaFlowHelper(headless) /\ cw = NoWait
    /\ hooks = <<>> /\ captcha_resume_event = FALSE
    /\ FilterIdle /\ PhoneIdle /\ DetectIdle /\ GuiIdle /\ LoadIdle /\ SerpIdle

\* run_fast_parser after parse_serp_cards returned: the finally block closes
\* the base context and browser, then the sync_playwright() block ends and
\* the driver stops, which ends every browser it launched
RunEnd ==
    /\ mode = "fast" /\ crawl_pc = "done"
    /\ crawl_pc' = "closed"
    /\ helper' = [helper EXCEPT !.visible_open = 0]
    /\ UNCHANGED <<limit, all_ids, parsed_ids, seen_keys, items, idx, parsed_this_round,
                   total, dedupe_key, captchas, ok_since_clear>>
    /\ UNCHANGED <<filterVars, sinkVars, phoneVars, rateVars, detectVars, runVars, loadVars, serpVars, headless, cw,
                   hooks, captcha_resume_event>>

NextCaptcha ==
    \/ \E captcha \in BOOLEAN : EntryCaptchaCheck(captcha)
    \/ \E count \in 0..MaxCards : LoadAllCards(count)
    \/ CardTop
    \/ \E captcha \in BOOLEAN : CheckCaptcha(captcha)
    \/ \E persists \in BOOLEAN : WaitEnter(persists)
    \/ \E c1 \in BOOLEAN, c2 \in BOOLEAN : WaitPoll(c1, c2)
    \/ BackoffDone
    \/ CaptchaStopped
    \/ \E card_url \in { <<"profile", i>> : i \in Ids } : ParseSerpCard("A", card_url)
    \/ RunEnd
    \/ OnStop
    \/ OnPause
    \/ OnResume

SpecCaptcha == InitCaptcha /\ [][NextCaptcha]_vars

-----------------------------------------------------------------------------
(* SpecSerp: one carousel run of run_fast_parser, card by card: the fields *)
(* of a card and its fallback steps, the callbacks, the delay after the    *)
(* card, and the write loop that follows parse_serp_cards.                 *)

MaxSerpCards == 2

\* what one carousel card shows: the oid of its title link ("" = no title link),
\* the owner badge, the phone on the main button, the site link
CardDoms ==
    { [oid |-> "101", verified |-> TRUE,  phone |-> PhoneA, site |-> <<"site">>],
      [oid |-> "101", verified |-> FALSE, phone |-> <<>>,   site |-> <<>>],
      [oid |-> "102", verified |-> TRUE,  phone |-> <<>>,   site |-> <<"site">>],
      [oid |-> "102", verified |-> FALSE, phone |-> PhoneA, site |-> <<>>],
      [oid |-> "",    verified |-> FALSE, phone |-> <<>>,   site |-> <<>>] }

\* what the "more actions" popup of a card gives: nothing, or every field
Popups ==
    { [phone |-> <<>>, profile |-> <<>>, site |-> <<>>],
      [phone |-> PhoneB, profile |-> <<"profile", "102">>, site |-> <<"site">>] }

\* the settings run_fast_parser filters with
SerpSettings ==
    { st \in SinkSettings :
        st.white_list = <<>> /\ st.stop_words = <<>> /\ st.max_rating = None }
    \cup { PotentialFiltersSettings(<<>>, <<>>,
              [exclude_no_phone |-> FALSE, require_checkmark |-> TRUE,
               exclude_good_place |-> FALSE, exclude_noncommercial |-> FALSE,
               max_rating |-> None]) }

InitSerp ==
    /\ mode = "fast"
    /\ limit = 0
    /\ all_ids = {} /\ parsed_ids = {} /\ seen_keys = {}
    /\ items = <<>> /\ idx = 0 /\ parsed_this_round = 0 /\ total = 0
    /\ dedupe_key = <<>> /\ captchas = 0 /\ ok_since_clear = FALSE
    /\ crawl_pc = "start"
    /\ rl = RateLimiter(backoff_base_s_default, backoff_max_s_default)
    /\ waits = <<>> /\ rl_fresh = TRUE
    /\ produced = <<>> /\ writer = ExcelWriter /\ last_include = <<>>
    /\ stop_event = FALSE /\ pause_event = FALSE /\ sink_pc = "collect"
    /\ variant = "root" /\ f_row = Organization(<<>>, BaseFields)
    /\ f_settings \in SerpSettings /\ f_result = <<>> /\ config = NoConfig
    /\ PhoneIdle /\ DetectIdle /\ GuiIdle /\ CaptchaIdle /\ LoadIdle /\ SerpIdle

serpRest0 ==
    <<filterVars, phoneVars, rateVars, writer, last_include, mode, stop_event,
      pause_event, limit, all_ids, parsed_ids, items, parsed_this_round, total,
      captchas, detectVars, runVars, loadVars, captchaVars>>

serpRest == <<serpRest0, rl_calls>>

\* a test that opens the popup for a missing link only
need_popup_links_only(c) == c.card_url = <<>> \/ c.website = <<>>

\* parse_serp_cards: need_popup = not phones or not card_url or not website
need_popup(c) == c.phones = <<>> \/ c.card_url = <<>> \/ c.website = <<>>

\* a merge that lets the popup's phone replace a phone found earlier
merge_popup_phone_overwrite(phones, popup_phone) ==
    IF popup_phone # <<>> THEN popup_phone ELSE phones

\* parse_serp_cards: `if not phones: phones = popup_phone`
merge_popup_phone(phones, popup_phone) ==
    IF phones = <<>> THEN popup_phone ELSE phones

\* parse_serp_cards lines 894-906: card = cards.nth(idx) and the fields the card
\* itself shows.  raises: "title" = title_a.count() raises in _get_name_and_link,
\* "badge" = the locator count of line 900 raises, "" = no call raises
BeginCard(dom, raises) ==
    /\ mode = "fast" /\ crawl_pc = "card" /\ serp_card = <<>>
    /\ IF raises # ""
       THEN crawl_pc' = "raised" /\ serp_card' = serp_card
       ELSE LET c == [name |-> IF dom.oid = "" THEN <<>> ELSE <<"A">>,
                      rating |-> <<>>,
                      verified |-> dom.verified,
                      website |-> dom.site,
                      card_url |-> IF dom.oid = "" THEN <<>> ELSE <<"profile", dom.oid>>,
                      phones |-> dom.phone,
                      profile_link |-> <<>>,
                      steps |-> <<"main">>,
                      phone_steps |-> <<dom.phone>>]
            IN  /\ serp_card' = <<c>>
                /\ crawl_pc' = IF c.phones = <<>> THEN "show_phone"
                               ELSE IF need_popup(c) THEN "popup" ELSE "append"
    /\ UNCHANGED <<sink_pc, produced, seen_keys, idx, dedupe_key, ok_since_clear,
                   progress_calls, serpRest>>

\* parse_serp_cards lines 907-908: phones = _click_show_phone(card, page, log);
\* text_after: the phone the button shows after the click, <<>> on any failure
ClickShowPhone(text_after) ==
    /\ mode = "fast" /\ crawl_pc = "show_phone"
    /\ LET c == [serp_card[1] EXCEPT !.phones = text_after,
                                     !.steps = Append(@, "click"),
                                     !.phone_steps = Append(@, text_after)]
       IN  /\ serp_card' = <<c>>
           /\ crawl_pc' = IF need_popup(c) THEN "popup" ELSE "append"
    /\ UNCHANGED <<sink_pc, produced, seen_keys, idx, dedupe_key, ok_since_clear,
                   progress_calls, serpRest>>

\* parse_serp_cards lines 912-919: _extract_from_extra_popup and the merge
ExtraPopup(popup) ==
    /\ mode = "fast" /\ crawl_pc = "popup"
    /\ LET c == serp_card[1]
       IN  serp_card' =
             <<[c EXCEPT !.phones = merge_popup_phone(c.phones, popup.phone),
                         !.profile_link = popup.profile,
                         !.steps = Append(@, "popup"),
                         !.phone_steps = Append(@, popup.phone),
                         !.website = IF c.website = <<>> THEN popup.site
                                     ELSE c.website]>>
    /\ crawl_pc' = "append"
    /\ UNCHANGED <<sink_pc, produced, seen_keys, idx, dedupe_key, ok_since_clear,
                   progress_calls, serpRest>>

\* parse_serp_cards lines 921-957: the dedupe test, rows.append(row), row_cb
\* (its exceptions are swallowed) and progress(...)
AppendRow(progress_raises) ==
    /\ mode = "fast" /\ crawl_pc = "append"
    /\ LET c == serp_card[1]
           card_url == IF c.profile_link # <<>> THEN c.profile_link ELSE c.card_url
           row == Row(c.name, c.rating, c.verified, c.phones, c.website, card_url)
           key == DedupeKey(c.name, Reviews, card_url)
       IN  /\ dedupe_key' = key
           /\ IF key \in seen_keys
              THEN /\ idx' = idx + 1
                   /\ serp_card' = <<>>
                   /\ crawl_pc' = "card_top"
                   /\ UNCHANGED <<seen_keys, produced, ok_since_clear, progress_calls>>
              ELSE /\ seen_keys' = seen_keys \cup {key}
                   /\ produced' = Append(produced, _rows_to_organizations(row))
                   /\ ok_since_clear' = (waits # <<>>)
                   /\ progress_calls' = Append(progress_calls, progress_payload(idx, total))
                   /\ crawl_pc' = IF progress_raises THEN "raised" ELSE "delay"
                   /\ UNCHANGED <<idx, serp_card>>
    /\ UNCHANGED <<sink_pc, serpRest>>

\* parse_serp_cards lines 969-992: maybe_human_delay, maybe_batch_pause(idx + 1, ...)
\* and wait_action, each a _wait_with_pause when its delay is positive.  delayed: the
\* human delay or the action delay is positive; run_fast_parser hands over no
\* settings getter and no batch_every_n, so the batch cadence is the default
CardDelay(delayed) ==
    /\ mode = "fast" /\ crawl_pc = "delay"
    /\ (delayed \/ maybe_batch_pause(idx + 1, batch_every_n_default))
          => (~pause_event \/ stop_event)
    /\ rl_calls' = rate_calls(idx + 1, batch_every_n_default)
    /\ idx' = idx + 1
    /\ serp_card' = <<>>
    /\ crawl_pc' = "card_top"
    /\ UNCHANGED <<sink_pc, produced, seen_keys, dedupe_key, ok_since_clear,
                   progress_calls, serpRest0>>

\* run_fast_parser: parse_serp_cards returned rows; _rows_to_organizations and
\* ExcelWriter(...) before the write loop
RowsReturned ==
    /\ mode = "fast" /\ crawl_pc = "done" /\ sink_pc = "collect"
    /\ sink_pc' = "loop"
    /\ UNCHANGED <<crawl_pc, produced, seen_keys, idx, dedupe_key, ok_since_clear,
                   serp_card, progress_calls, serpRest>>

\* an exception leaves parse_serp_cards and run_fast_parser (no handler before
\* gui._run_worker): no writer is built, the rows are dropped
RunRaised ==
    /\ mode = "fast" /\ crawl_pc = "raised"
    /\ crawl_pc' = "closed"
    /\ sink_pc' = "closed"
    /\ UNCHANGED <<produced, seen_keys, idx, dedupe_key, ok_since_clear,
                   serp_card, progress_calls, serpRest>>

NextSerp ==
    \/ \E captcha \in BOOLEAN : EntryCaptchaCheck(captcha)
    \/ \E count \in 0..MaxSerpCards : LoadAllCards(count)
    \/ CardTop
    \/ \E captcha \in BOOLEAN : CheckCaptcha(captcha)
    \/ \E persists \in BOOLEAN : WaitEnter(persists)
    \/ \E c1 \in BOOLEAN, c2 \in BOOLEAN : WaitPoll(c1, c2)
    \/ BackoffDone
    \/ CaptchaStopped
    \/ \E dom \in CardDoms, raises \in {"", "title", "badge"} : BeginCard(dom, raises)
    \/ \E text_after \in {<<>>, PhoneA} : ClickShowPhone(text_after)
    \/ \E popup \in Popups : ExtraPopup(popup)
    \/ \E progress_raises \in BOOLEAN : AppendRow(progress_raises)
    \/ \E delayed \in BOOLEAN : CardDelay(delayed)
    \/ RowsReturned
    \/ RunRaised
    \/ FastForward
    \/ OnStop
    \/ OnPause
    \/ OnResume

SpecSerp == InitSerp /\ [][NextSerp]_vars

\* the steps of the worker thread that runs run_fast_parser
SerpWorker ==
    \/ \E captcha \in BOOLEAN : EntryCaptchaCheck(captcha)
    \/ \E count \in 0..MaxSerpCards : LoadAllCards(count)
    \/ CardTop
    \/ \E captcha \in BOOLEAN : CheckCaptcha(captcha)
    \/ \E persists \in BOOLEAN : WaitEnter(persists)
    \/ \E c1 \in BOOLEAN, c2 \in BOOLEAN : WaitPoll(c1, c2)
    \/ BackoffDone
    \/ CaptchaStopped
    \/ \E dom \in CardDoms, raises \in {"", "title", "badge"} : BeginCard(dom, raises)
    \/ \E text_after \in {<<>>, PhoneA} : ClickShowPhone(text_after)
    \/ \E popup \in Popups : ExtraPopup(popup)
    \/ \E progress_raises \in BOOLEAN : AppendRow(progress_raises)
    \/ \E delayed \in BOOLEAN : CardDelay(delayed)
    \/ RowsReturned
    \/ RunRaised
    \/ FastForward

\* the worker thread is scheduled as long as it has a step to take
SpecSerpFair == SpecSerp /\ WF_vars(SerpWorker)

-----------------------------------------------------------------------------
(* SpecLoad: the two loading loops, iteration by iteration: the panel      *)
(* enumeration _collect_all_ids (mode "slow") and the carousel loop        *)
(* _load_all_cards that parse_serp_cards runs (mode "fast").               *)

MaxClicks == 3
IdlePolls == 2

\* _load_all_cards tests stalled >= 2 and stalled >= 3: larger values act as 3
StalledCap == 3

InitLoad ==
    /\ mode \in {"slow", "fast"}
    /\ IF mode = "slow"
       THEN /\ crawl_pc = "scan_top"
            /\ limit \in 0..MaxLimit
            /\ all_ids \in SUBSET Ids
            /\ ld = NoLoop
            /\ max_clicks = 0
       ELSE /\ crawl_pc = "load_top"
            /\ limit = 0
            /\ all_ids = {}
            /\ ld \in {[NoLoop EXCEPT !.last_count = n] : n \in 1..MaxCards}
            /\ max_clicks \in 0..(MaxClicks - 1)
    /\ parsed_ids = {} /\ seen_keys = {}
    /\ items = <<>> /\ idx = 0 /\ parsed_this_round = 0 /\ total = 0
    /\ dedupe_key = <<>> /\ captchas = 0 /\ ok_since_clear = FALSE
    /\ produced = <<>> /\ writer = ExcelWriter /\ last_include = <<>>
    /\ stop_event = FALSE /\ pause_event = FALSE /\ sink_pc = "closed"
    /\ FilterIdle /\ PhoneIdle /\ RateIdle /\ DetectIdle /\ GuiIdle /\ CaptchaIdle /\ SerpIdle

loadRest ==
    <<filterVars, phoneVars, rateVars, detectVars, runVars, captchaVars, serpVars, sinkVars, max_clicks,
      parsed_ids, seen_keys, items, idx, parsed_this_round, total, dedupe_key,
      captchas, ok_since_clear, limit>>

\* _collect_all_ids: top of `while True`: the limit test
ScanTop ==
    /\ mode = "slow" /\ crawl_pc = "scan_top"
    /\ crawl_pc' = IF limit_reached(Cardinality(all_ids))
                   THEN "returned" ELSE "scan_scroll"
    /\ UNCHANGED <<all_ids, ld, loadRest>>

\* _collect_all_ids: _scroll_list, all_ids.update, `if moved: continue`
ScrollList(moved, new_ids) ==
    /\ mode = "slow" /\ crawl_pc = "scan_scroll"
    /\ all_ids' = all_ids \cup new_ids
    /\ ld' = [ld EXCEPT !.grew = (all_ids' # all_ids), !.idle_polls = 0]
    /\ crawl_pc' = IF moved THEN "scan_top" ELSE "scan_idle"
    /\ UNCHANGED loadRest

\* _collect_all_ids: one pass of the 10 s idle loop (sleep 0.3-0.5 s, collect)
\* and, when the loop ends, the test len(all_ids) == idle_start_size
IdlePoll(new_ids) ==
    /\ mode = "slow" /\ crawl_pc = "scan_idle"
    /\ all_ids' = all_ids \cup new_ids
    /\ IF all_ids' # all_ids
       THEN /\ ld' = [ld EXCEPT !.grew = TRUE, !.idle_polls = 0]
            /\ crawl_pc' = "scan_top"
       ELSE /\ ld' = [ld EXCEPT !.grew = FALSE, !.idle_polls = @ + 1]
            /\ crawl_pc' = IF ld.idle_polls + 1 >= IdlePolls
                           THEN "returned" ELSE "scan_idle"
    /\ UNCHANGED loadRest

\* _load_all_cards: `while not stop_event.is_set()`
LoadTop ==
    /\ mode = "fast" /\ crawl_pc = "load_top"
    /\ crawl_pc' = IF stop_event THEN "returned" ELSE "load_pause"
    /\ UNCHANGED <<all_ids, ld, loadRest>>

\* _load_all_cards: `while pause_event.is_set() and not stop_event.is_set(): sleep`
LoadPauseWait ==
    /\ mode = "fast" /\ crawl_pc = "load_pause"
    /\ ~pause_event \/ stop_event
    /\ crawl_pc' = "load_body"
    /\ UNCHANGED <<all_ids, ld, loadRest>>

\* _load_all_cards: arrow and shadow are looked up, the first exit test, and the
\* click on the arrow when it is visible
ArrowClick(arrow_visible, shadow_visible) ==
    /\ mode = "fast" /\ crawl_pc = "load_body"
    /\ arrow_visible => ld.clicks < MaxClicks
    /\ IF ~arrow_visible /\ ~shadow_visible /\ ld.stalled >= 2
       THEN crawl_pc' = "returned" /\ UNCHANGED ld
       ELSE /\ crawl_pc' = "load_grow"
            /\ ld' = [ld EXCEPT !.clicks = IF arrow_visible THEN @ + 1 ELSE @,
                                !.shadow_visible = shadow_visible]
    /\ UNCHANGED <<all_ids, loadRest>>

\* _load_all_cards: _wait_for_card_growth_fast (held while paused, ended by
\* stop), the stalled counter, wait_for_timeout(200) and the second exit test
CardGrowth(current_count) ==
    /\ mode = "fast" /\ crawl_pc = "load_grow"
    /\ ~pause_event \/ stop_event
    /\ current_count >= ld.last_count
    /\ LET grew == current_count > ld.last_count
           stalled == IF grew THEN 0 ELSE Min(ld.stalled + 1, StalledCap)
       IN  /\ ld' = [ld EXCEPT !.grew = grew, !.stalled = stalled,
                               !.last_count = IF grew THEN current_count ELSE @]
           /\ crawl_pc' = IF stalled >= 3 /\ ~ld.shadow_visible
                          THEN "returned" ELSE "load_top"
    /\ UNCHANGED <<all_ids, loadRest>>

\* the steps of the worker thread
LoadWorker ==
    \/ ScanTop
    \/ \E moved \in BOOLEAN, new_ids \in SUBSET Ids : ScrollList(moved, new_ids)
    \/ \E new_ids \in SUBSET Ids : IdlePoll(new_ids)
    \/ LoadTop
    \/ LoadPauseWait
    \/ \E arrow_visible \in BOOLEAN, shadow_visible \in BOOLEAN :
          ArrowClick(arrow_visible, shadow_visible)
    \/ \E current_count \in 1..MaxCards : CardGrowth(current_count)

NextLoad ==
    \/ LoadWorker
    \/ OnStop
    \/ OnPause
    \/ OnResume

SpecLoad == InitLoad /\ [][NextLoad]_vars

\* the worker thread keeps running: a step of the loop that can be taken is
\* taken in the end
SpecLoadFair == SpecLoad /\ WF_vars(LoadWorker)

-----------------------------------------------------------------------------
(* Properties of the filter and the sink.                                  *)

IsPrefix(s, t) == Len(s) <= Len(t) /\ s = SubSeq(t, 1, Len(s))

\* the name as the spec's rules 1-2 normalise it, and the configured stop words
SpecName == _normalize_text(f_row.name)

SpecStopWords ==
    LET parsed == _parse_list(f_settings.stop_words)
    IN  [i \in 1..Len(parsed) |-> _normalize_text(parsed[i])]

HasStopWord == \E i \in 1..Len(SpecStopWords) : Contains(SpecName, SpecStopWords[i])

\* C4: every record the orchestrator forwards is on the full sheet exactly once
\* and in production order whatever the filter returned (the full sheet is a
\* prefix of the produced records, and all of them when the run ends unstopped);
\* the potential sheet holds exactly the full-sheet rows the filter accepted.
C4_FilterOnlyMarks ==
    /\ IsPrefix(writer.full_sheet, produced)
    /\ writer.potential_sheet =
           SelectSeq(writer.full_sheet, LAMBDA r : Passes(variant, r, f_settings))
    /\ (sink_pc = "closed" /\ ~stop_event) => writer.full_sheet = produced

C4_Witness ==
    /\ sink_pc = "closed"
    /\ Len(writer.full_sheet) = 2
    /\ ~Passes(variant, writer.full_sheet[1], f_settings)
    /\ writer.potential_sheet = <<writer.full_sheet[2]>>

\* C5: an evaluated record whose normalised name (lowercased, yo -> e,
\* punctuation collapsed) contains a configured stop word and is no private
\* institution is rejected, white-list match or not.
C5_StopWordBeatsWhiteList ==
    (f_result # <<>> /\ HasStopWord /\ ~is_private_exception(SpecName))
        => f_result = <<FALSE>>

\* the ordering of rules 1 and 2 alone, with the name as each variant reads it:
\* a stop word found by the variant rejects the record whatever the white list says
StopWordFoundRejects ==
    LET name == IF variant = "root" THEN lower(f_row.name) ELSE SpecName
        words == IF variant = "root" THEN _parse_list(f_settings.stop_words)
                 ELSE SpecStopWords
    IN  (/\ f_result # <<>>
         /\ \E i \in 1..Len(words) : Contains(name, words[i])
         /\ variant = "app" => ~is_private_exception(name))
            => f_result = <<FALSE>>

\* C6: when stop words are configured and the name is a private institution
\* (the private marker plus an education-type keyword), rule 2 does not reject:
\* the result is what the other rules give with the stop words left out.
C6_PrivateExceptionOverrides ==
    (/\ f_result # <<>>
     /\ _parse_list(f_settings.stop_words) # <<>>
     /\ is_private_exception(SpecName))
        => f_result = <<Passes(variant, f_row, [f_settings EXCEPT !.stop_words = <<>>])>>

\* the rating a rating text denotes, in hundredths (None: no number)
RatingValue(text) ==
    CASE text = Rating48 -> 480
      [] text = Rating49c -> 490
      [] text = Rating47 -> 470
      [] text = Rating45 -> 450
      [] OTHER -> None

\* C7: with max_rating = m configured, the record forwarded last, when its
\* rating is a number greater than m, is on the full sheet with include = FALSE
\* and no such record is on the potential sheet; a record with an empty or
\* non-numeric rating, or a rating <= m, gets the verdict it would get with no
\* max_rating configured.
C7_RatingRule ==
    (last_include # <<>> /\ f_settings.max_rating # None) =>
        LET org == produced[Len(writer.full_sheet)]
            m == f_settings.max_rating
            v == RatingValue(org.rating)
        IN  IF v # None /\ v > m
            THEN /\ last_include = <<FALSE>>
                 /\ writer.full_sheet[Len(writer.full_sheet)] = org
                 /\ \A i \in 1..Len(writer.potential_sheet) :
                        RatingValue(writer.potential_sheet[i].rating) \in {None} \cup 0..m
            ELSE last_include =
                     <<Passes(variant, org, [f_settings EXCEPT !.max_rating = None])>>

C7_Witness ==
    /\ f_settings.max_rating = MaxRating47
    /\ Len(writer.full_sheet) = 2
    /\ writer.full_sheet[1].rating = Rating48
    /\ writer.full_sheet[2].rating = <<>>
    /\ writer.potential_sheet = <<writer.full_sheet[2]>>

-----------------------------------------------------------------------------
(* Properties of phone extraction and of the rate limiter.                 *)

WellFormedPhone(p) ==
    \/ p = <<>>
    \/ /\ Len(p) = 12 /\ p[1] = "+" /\ p[2] = "7"
       /\ \A k \in 3..12 : IsDigit(p[k])

\* C1: the phone of every produced Organization is empty or "+7" followed by
\* ten digits, whichever strategy built it and whatever text the card showed.
C1_PhoneInvariant == ph_out # <<>> => WellFormedPhone(ph_out[1])

\* the panel strategy alone keeps the phone invariant
PanelPhoneInvariant == (mode = "slow" /\ ph_out # <<>>) => WellFormedPhone(ph_out[1])

RECURSIVE Pow2(_)
Pow2(n) == IF n = 0 THEN 1 ELSE 2 * Pow2(n - 1)

\* C9 (as stated): counting from construction or reset_backoff, the k-th
\* consecutive wait_backoff call waits min(backoff_base * 2^(k-1), backoff_max).
C9_Original ==
    rl_fresh => \A k \in 1..Len(waits) :
        waits[k] = Min(rl.backoff_base_s * Pow2(k - 1), rl.backoff_max_s)

\* C9 (amended): the first call waits backoff_base itself, capped or not; from
\* the second call on the k-th waits min(backoff_base * 2^(k-1), backoff_max).
C9_BackoffSchedule ==
    rl_fresh => \A k \in 1..Len(waits) :
        waits[k] = IF k = 1 THEN rl.backoff_base_s
                   ELSE Min(rl.backoff_base_s * Pow2(k - 1), rl.backoff_max_s)

C9_Witness ==
    /\ rl_fresh /\ Len(waits) = 3
    /\ rl.backoff_base_s = 1 /\ rl.backoff_max_s = 3
    /\ waits = <<1, 2, 3>>

-----------------------------------------------------------------------------
(* Properties of a crawl run.                                              *)

\* C2: a run configured with a limit L > 0 never yields more than L records.
C2_LimitRespected == limit > 0 => Len(produced) <= limit

\* the panel strategy alone respects the limit
PanelLimitRespected == (mode = "slow" /\ limit > 0) => Len(produced) <= limit

\* the identifier a record's profile link resolves to, "" when there is none
CanonicalId(org) ==
    IF mode = "slow"
    THEN (IF org.card_url = <<>> THEN "" ELSE Last(org.card_url))
    ELSE _extract_oid_from_href(org.card_url)

\* C3: no two records yielded in one run have the same resolvable identifier.
C3_NoDuplicateIds ==
    \A i, j \in 1..Len(produced) :
        (i < j /\ CanonicalId(produced[i]) # "")
            => CanonicalId(produced[i]) # CanonicalId(produced[j])

\* panel: a later round showed only entries already yielded and yielded nothing
C3_Witness ==
    /\ mode = "slow" /\ crawl_pc = "item"
    /\ Len(items) >= 1 /\ idx > Len(items) /\ parsed_this_round = 0
    /\ \A k \in 1..Len(items) : items[k] \in parsed_ids
    /\ Len(produced) >= 1 /\ CanonicalId(produced[1]) = items[1]

\* carousel: the card read last carried an identifier seen before and was skipped
SerpDuplicateSkipped ==
    /\ mode = "fast" /\ idx = 2 /\ Len(produced) = 1
    /\ dedupe_key = <<CanonicalId(produced[1])>>

\* C10: once a card has been processed after a cleared captcha, the backoff
\* interval is back at backoff_base.
C10_BackoffResetsOnSuccess == ok_since_clear => rl._backoff_s = rl.backoff_base_s

-----------------------------------------------------------------------------
(* Captcha detection.                                                      *)

\* the pages of SpecDetect whose URL carries a captcha marker
UrlMarked(p) ==
    ~p.url.raises /\ p.url.text \in {UrlShowCaptcha, UrlShowCaptchaUpper}

\* the pages of SpecDetect whose title carries a captcha keyword
TitleMarked(p) ==
    ~p.title.raises /\ p.title.text \in {TitleRobot, TitleKapcha, TitleCaptcha}

\* a marker selector is found before any locator raises
DomMarked(p) ==
    \E i \in 1..Len(CAPTCHA_SELECTORS) :
        p.counts[i] > 0 /\ (p.raise_at = 0 \/ i < p.raise_at)

\* the selectors looked at when the third check runs: up to the first one
\* that is present or raises
SelectorsRead(p) ==
    LET ends == {i \in 1..Len(CAPTCHA_SELECTORS) : p.counts[i] > 0 \/ p.raise_at = i}
        k == IF ends = {} THEN Len(CAPTCHA_SELECTORS)
             ELSE CHOOSE i \in ends : \A j \in ends : i <= j
    IN  SubSeq(CAPTCHA_SELECTORS, 1, k)

\* C11: is_captcha returns true exactly when the URL carries a captcha marker,
\* or else the title carries a captcha keyword, or else a captcha DOM marker is
\* present; the three checks run in that order and a match ends the call; a
\* check that raises counts as no match; an ordinary page gives false.
C11_DetectContract ==
    dt_out # <<>> =>
        LET p == dt_page
            o == dt_out[1]
        IN  /\ o.result = (UrlMarked(p) \/ TitleMarked(p) \/ DomMarked(p))
            /\ o.reads =
                  IF UrlMarked(p) THEN <<"url">>
                  ELSE IF TitleMarked(p) THEN <<"url", "title">>
                  ELSE <<"url", "title">> \o SelectorsRead(p)
            /\ (/\ ~p.url.raises /\ p.url.text = UrlSearch
                /\ ~p.title.raises /\ p.title.text = TitleCafe
                /\ p.raise_at = 0 /\ \A i \in 1..Len(CAPTCHA_SELECTORS) : p.counts[i] = 0)
               => ~o.result

\* the URL read raised, the title is ordinary, the third selector is present
C11_Witness ==
    /\ dt_out # <<>>
    /\ dt_page.url.raises
    /\ dt_page.title = [raises |-> FALSE, text |-> TitleCafe]
    /\ dt_page.raise_at = 0
    /\ dt_page.counts = [i \in 1..5 |-> IF i = 3 THEN 1 ELSE 0]
    /\ dt_out[1] = [result |-> TRUE, reads |-> <<"url", "title", "sel1", "sel2", "sel3">>]

-----------------------------------------------------------------------------
(* The captcha wait.                                                       *)

InWait == cw.pc \in {"loop", "backoff"}

\* C12: within one call of wait_captcha_resolved the first stage handed to the
\* hook is "detected", a "still" comes only after "detected" and before
\* "cleared", "cleared" comes at most once and nothing follows it, and a call
\* that is ending by Stop has emitted no "cleared".
C12_HookLifecycle ==
    InWait =>
        /\ hooks # <<>> /\ hooks[1] = "detected"
        /\ \A i \in 1..Len(hooks) :
              hooks[i] = "still" =>
                 /\ \E j \in 1..(i - 1) : hooks[j] = "detected"
                 /\ \A j \in 1..(i - 1) : hooks[j] # "cleared"
        /\ Count(hooks, "cleared") <= 1
        /\ Count(hooks, "cleared") = 1 => Last(hooks) = "cleared"
        /\ (cw.pc = "loop" /\ stop_event) => Count(hooks, "cleared") = 0

\* the same order without the demand that "detected" comes first: "detected"
\* is emitted once, as the first stage or right after one "manual"
HookLifecycleAfterManual ==
    InWait =>
        /\ Count(hooks, "detected") = 1
        /\ hooks[1] = "detected" \/ (hooks[1] = "manual" /\ hooks[2] = "detected")
        /\ Count(hooks, "cleared") <= 1
        /\ Count(hooks, "cleared") = 1 => Last(hooks) = "cleared"
        /\ (cw.pc = "loop" /\ stop_event) => Count(hooks, "cleared") = 0

\* C13: in a headless run every captcha detection emits "detected" first and,
\* when the page still shows the captcha after the helper's attempts and its
\* fixed wait, then "manual", launches the visible session and hands its page
\* to the wait loop; a run that is not headless never launches a visible
\* session and never emits "manual".
C13_ManualEscalation ==
    /\ (headless /\ cw.pc = "loop" /\ cw.persists = <<TRUE>>) =>
          /\ Len(hooks) >= 2 /\ SubSeq(hooks, 1, 2) = <<"detected", "manual">>
          /\ helper.visible_open = 1
          /\ cw.page = "visible"
    /\ ~headless => (helper.visible_open = 0 /\ Count(hooks, "manual") = 0)

\* the escalation whatever the order of the two stages
EscalatesOnEveryDetection ==
    (headless /\ cw.pc = "loop" /\ cw.persists = <<TRUE>>) =>
        /\ Count(hooks, "manual") = 1
        /\ helper.visible_open = 1
        /\ cw.page = "visible"

\* the first detection of a headless run escalates; no other run does
EscalatesOnFirstDetection ==
    /\ (headless /\ cw.pc = "loop" /\ cw.persists = <<TRUE>> /\ captchas = 1) =>
          /\ Count(hooks, "manual") = 1
          /\ helper.visible_open = 1
          /\ cw.page = "visible"
    /\ ~headless => (helper.visible_open = 0 /\ Count(hooks, "manual") = 0)

\* C14: when Stop is set at some moment of a wait_captcha_resolved call, the
\* post-clear backoff included, the call returns None (parse_serp_cards ends
\* its loop) and no further card is processed in that run.
C14_StopAbortsWait ==
    /\ [][(stop_event /\ InWait /\ cw'.pc = "off") => crawl_pc' = "done"]_vars
    /\ \A n \in 0..MaxCards : []((stop_event /\ InWait /\ idx = n) => [](idx = n))

\* C15: an iteration of the wait loop that consumes the resume signal re-checks
\* the page and emits exactly one of "cleared" (Detect false) and "still"
\* (Detect true, the wait goes on); the call is about to return a page only
\* when the last Detect on the page in use was false.
C15_ResumeIsAHint ==
    /\ [][(cw.pc = "loop" /\ captcha_resume_event /\ ~captcha_resume_event') =>
            \/ (/\ hooks' = Append(hooks, "cleared")
                /\ cw'.detect = <<FALSE>> /\ cw'.pc = "backoff")
            \/ (/\ hooks' = Append(hooks, "still")
                /\ cw'.detect = <<TRUE>> /\ cw'.pc = "loop")]_vars
    /\ [](cw.pc = "backoff" => (cw.detect = <<FALSE>> /\ Last(hooks) = "cleared"))

\* the resume signal was consumed while the page still showed the captcha: the
\* wait goes on after a "still"
C15_Witness ==
    /\ cw.pc = "loop" /\ ~captcha_resume_event /\ ~stop_event
    /\ cw.detect = <<TRUE>> /\ hooks # <<>> /\ Last(hooks) = "still"

\* C16: whenever control is back with the collector after a captcha wait
\* (cleared, or aborted by Stop) and whenever the run has ended, no visible
\* browser is open; on clearing, the cookies of the visible session were merged
\* into the base context and the page handed back is the base page.
C16_VisibleSessionTornDown ==
    /\ cw.pc = "off" => helper.visible_open = 0
    /\ cw.pc = "backoff" =>
          /\ cw.page = "base"
          /\ Count(hooks, "manual") > 0 => helper.cookies_merged

\* the part that holds: teardown on clearing and at the end of the run
TornDownOnClearAndRunEnd ==
    /\ (cw.pc = "backoff" \/ crawl_pc = "closed") => helper.visible_open = 0
    /\ cw.pc = "backoff" =>
          /\ cw.page = "base"
          /\ Count(hooks, "manual") > 0 => helper.cookies_merged

\* C17: at every moment of a run at most one visible session exists, and one
\* exists only between the "manual" escalation of a captcha wait and the end
\* of that wait.
C17_SecondaryOnlyDuringManual ==
    /\ helper.visible_open <= 1
    /\ helper.visible_open > 0 => (cw.pc = "loop" /\ Count(hooks, "manual") = 1)

AtMostOneVisible == helper.visible_open <= 1

-----------------------------------------------------------------------------
(* The loading loops.                                                      *)

\* the worker sits in a wait: the pause wait of the carousel loop, its
\* card-growth wait, the idle detection of the panel enumeration
WaitPcs == {"load_pause", "load_grow", "scan_idle"}

LoopPcs == {"scan_top", "scan_scroll", "scan_idle",
            "load_top", "load_pause", "load_body", "load_grow"}

\* C18: every wait polls Stop and Pause: while Pause is set and Stop is not,
\* a wait does not complete and the crawl does not advance; once Stop is set
\* the next tick of a wait ends it.
C18_WaitsPollStopAndPause ==
    /\ [][(pause_event /\ ~stop_event /\ crawl_pc \in WaitPcs) =>
             (crawl_pc' = crawl_pc /\ all_ids' = all_ids /\ ld' = ld)]_vars
    /\ [][(stop_event /\ crawl_pc \in WaitPcs /\ <<crawl_pc, all_ids, ld>>' # <<crawl_pc, all_ids, ld>>)
             => crawl_pc' # crawl_pc]_vars

\* the same for the waits of the carousel loop alone
CarouselWaitsPollStopAndPause ==
    /\ [][(pause_event /\ ~stop_event /\ crawl_pc \in {"load_pause", "load_grow"}) =>
             (crawl_pc' = crawl_pc /\ ld' = ld)]_vars
    /\ [][(stop_event /\ crawl_pc \in {"load_pause", "load_grow"} /\ <<crawl_pc, ld>>' # <<crawl_pc, ld>>)
             => crawl_pc' # crawl_pc]_vars

\* the captcha wait of SpecCaptcha holds while Pause is set
CaptchaWaitHonoursPause ==
    [][(pause_event /\ ~stop_event /\ InWait) => (cw' = cw /\ crawl_pc' = crawl_pc)]_vars

\* C19: both loops end once Stop is set, and, Stop or not, they end when from
\* some moment on nothing new appears (and the run is not paused), whatever
\* the page does.
C19_LoopsTerminate ==
    /\ (stop_event /\ crawl_pc \in LoopPcs) ~> (crawl_pc = "returned")
    /\ <>[](~pause_event /\ ~ld.grew) => <>(crawl_pc = "returned")

\* the carousel loop ends once Stop is set
CarouselStopTerminates ==
    (mode = "fast" /\ stop_event /\ crawl_pc \in LoopPcs) ~> (crawl_pc = "returned")

\* the panel enumeration ends once Stop is set
PanelStopTerminates ==
    (mode = "slow" /\ stop_event /\ crawl_pc \in LoopPcs) ~> (crawl_pc = "returned")

\* the carousel loop ends when nothing new appears
CarouselIdleTerminates ==
    <>[](mode = "fast" /\ ~pause_event /\ ~ld.grew) => <>(crawl_pc = "returned")

\* the panel enumeration ends when nothing new appears
PanelIdleTerminates ==
    <>[](mode = "slow" /\ ~pause_event /\ ~ld.grew) => <>(crawl_pc = "returned")

\* C20: in one call of parse_serp_cards the arrow is clicked at most max_clicks
\* times, and it is clicked again only after the card count grew.
C20_ClicksBounded ==
    /\ [](mode = "fast" => ld.clicks <= max_clicks)
    /\ [][(ld'.clicks > ld.clicks /\ ld.clicks > 0) => ld.grew]_vars

\* the bound alone
ClicksWithinMaxClicks == mode = "fast" => ld.clicks <= max_clicks

\* a further click only after growth
ClickOnlyAfterGrowth ==
    [][(ld'.clicks > ld.clicks /\ ld.clicks > 0) => ld.grew]_vars

\* the records of seq the filter of the run accepts
Eligible(seq) ==
    LET Ok(org) == Passes(variant, org, f_settings) IN SelectSeq(seq, Ok)

\* every record produced is in the full output, every eligible one in the curated output
Delivered ==
    /\ sink_pc = "closed"
    /\ writer.full_sheet = produced
    /\ writer.potential_sheet = Eligible(produced)
    /\ writer.saved = <<Len(produced), Len(Eligible(produced))>>

\* the captcha wait of a card is about to report that the crawl must abort
CaptchaAbort == crawl_pc = "captcha_wait" /\ cw.pc = "loop" /\ stop_event

\* C21: when the captcha guard reports, in the middle of collection, that the crawl must
\* abort, the run ends with every record produced so far in the full output and every
\* eligible one in the curated output
C21_AbortKeepsRecords == CaptchaAbort ~> Delivered

\* a run that ends without Stop and without an exception delivers every record
DeliveredWithoutStop ==
    (sink_pc = "closed" /\ crawl_pc = "done" /\ ~stop_event) => Delivered

\* after a captcha abort the collector has returned its rows to run_fast_parser
AbortReturnsRows ==
    [][(CaptchaAbort /\ crawl_pc' # crawl_pc) =>
          (crawl_pc' = "done" /\ produced' = produced /\ sink_pc' = "collect")]_vars

\* the write loop that follows a Stop writes no record at all
StopDropsEveryRow ==
    (sink_pc = "closed" /\ crawl_pc = "done" /\ stop_event /\ writer.full_sheet = <<>>
       /\ produced # <<>> /\ captchas > 0)

\* C22: once the Stop signal is set the collector yields no record whose extraction
\* began after Stop was set, in the panel enumeration as well as in the carousel
C22_StopIsImmediate == [][stop_event => produced' = produced]_vars

PanelStopIsImmediate ==
    [][(mode = "slow" /\ stop_event) => produced' = produced]_vars

CarouselStopIsImmediate ==
    [][(mode = "fast" /\ stop_event) => produced' = produced]_vars

\* the carousel starts no card at the head of an iteration that found Stop set
CarouselStopAtLoopHead ==
    [][(mode = "fast" /\ crawl_pc = "card_top" /\ stop_event) => crawl_pc' \in {"card_top", "done"}]_vars

\* the orchestrator of the panel run writes no record it received after Stop
PanelStopNothingWritten ==
    [][(mode = "slow" /\ sink_pc = "body" /\ stop_event) => writer'.full_sheet = writer.full_sheet]_vars

\* the index values of the progress calls are strictly increasing and lie in 1..total
ProgressIndexesOrdered ==
    /\ \A i \in 1..Len(progress_calls) :
          /\ 1 <= progress_calls[i].index
          /\ progress_calls[i].index <= progress_calls[i].total
          /\ progress_calls[i].total = total
    /\ \A i, j \in 1..Len(progress_calls) :
          i < j => progress_calls[i].index < progress_calls[j].index

NoProgressWithoutRecord ==
    [][produced' = produced => progress_calls' = progress_calls]_vars

\* the positions of parse_serp_cards inside the body of one card
CardPcs == {"card", "show_phone", "popup", "append", "delay"}

\* C24: no exception raised by a browser call or callback made for one card aborts the
\* run: the card is skipped or yielded and collection goes on with the next card
C24_CardErrorsContained ==
    [][(crawl_pc \in CardPcs) => (crawl_pc' \in CardPcs \cup {"card_top"})]_vars

\* the two fallback steps and the row callback never end the collection
FallbacksContained ==
    [][(crawl_pc \in {"show_phone", "popup"} /\ crawl_pc' # crawl_pc)
          => (crawl_pc' \in {"popup", "append"})]_vars

\* a run ended by an exception writes no output at all
RaisedRunWritesNothing ==
    crawl_pc \in {"raised", "closed"} => writer = ExcelWriter

\* the record of the card at the append step: what was found, empty where nothing was
MissRecord(c) ==
    [name |-> c.name, phone |-> c.phones,
     verified |-> IF c.verified THEN "sinyaya" ELSE "",
     award |-> <<>>, website |-> c.website,
     card_url |-> IF c.profile_link # <<>> THEN c.profile_link ELSE c.card_url,
     rating |-> c.rating]

\* a field is empty at the append step only when its whole fallback chain was tried
ChainExhausted(c) ==
    /\ c.phones = <<>> => c.steps = <<"main", "click", "popup">>
    /\ (c.website = <<>> \/ c.card_url = <<>>) => c.steps[Len(c.steps)] = "popup"

C26_TimeoutBackoffRetry ==
    [][(crawl_pc' = "card_missing" /\ crawl_pc = "item") =>
          (Len(waits') = Len(waits) + 1 /\ produced' = produced /\ idx' = idx + 1)]_vars

\* the panel run performs no backoff wait at all
PanelNeverBacksOff == mode = "slow" => (waits = <<>> /\ rl_fresh)

\* after the second timeout the card is skipped and the run goes on with the next entry
TimeoutSkipsCard ==
    /\ [][(crawl_pc' = "card_missing" /\ crawl_pc = "item") =>
            (produced' = produced /\ parsed_ids' = parsed_ids /\ idx' = idx + 1)]_vars
    /\ [][(crawl_pc = "card_missing" /\ crawl_pc' # crawl_pc) => crawl_pc' = "item"]_vars

\* the max_rating entry of the settings file cannot be parsed as a decimal
Unparsable(raw) == raw # <<>> /\ parse_float(raw[1]) = None

\* the verdict of the filter when there is no rating constraint
NoConstraintVerdict ==
    passes_potential_filters(f_row, [f_settings EXCEPT !.max_rating = None])

\* C27: a max_rating value that cannot be parsed as a decimal is treated as "no
\* constraint": passes_potential_filters returns a boolean without raising and the rating
\* rule rejects no record
C27_InvalidMaxRatingIgnored ==
    (f_result # <<>> /\ Unparsable(config.max_rating)) =>
        (Len(f_result) = 1 /\ f_result[1] = NoConstraintVerdict)

\* the same for every unparsable value other than the empty string
InvalidTextIgnored ==
    (f_result # <<>> /\ Unparsable(config.max_rating) /\ config.max_rating[1] # <<>>) =>
        (Len(f_result) = 1 /\ f_result[1] = NoConstraintVerdict)

\* the empty string reaches float(): the call raises for a rated record that rules 1-5 let pass
EmptyTextRaises ==
    (f_result # <<>> /\ config.max_rating = << <<>> >> /\ _get_rating(f_row) # None
       /\ ~(config.exclude_no_phone /\ f_row.phone = <<>>))
        => Len(f_result) = 2

\* YandexMapsScraper._parse_card, the badge: prioritized / plain = the count of
\* span.business-verified-badge._prioritized / span.business-verified-badge is positive
panel_verified(prioritized, plain) ==
    IF prioritized THEN "green" ELSE IF plain THEN "blue" ELSE ""

\* the values the two strategies write into Organization.verified for a blue or green badge
MarkedBadges ==
    ({ panel_verified(p, q) : p \in BOOLEAN, q \in BOOLEAN } \ {""})
        \cup { _rows_to_organizations(Row(<<>>, <<>>, TRUE, <<>>, <<>>, <<>>)).verified }

\* the verdict of the filter of the run with rule 4 switched off
VerdictWithoutRule4 ==
    Passes(variant, f_row, [f_settings EXCEPT !.require_checkmark = FALSE])

\* C28: with require_checkmark enabled a record is rejected by rule 4 exactly when its
\* badge is neither blue nor green; a record a strategy marked blue or green is not
\* rejected by rule 4
C28_BadgeRule ==
    (f_result # <<>> /\ f_settings.require_checkmark) =>
        f_result[1] = (VerdictWithoutRule4 /\ f_row.verified \in MarkedBadges)

\* the rule as the carousel meets it: "sinyaya" passes, no badge is rejected
CarouselBadgeRule ==
    (f_result # <<>> /\ f_settings.require_checkmark /\ f_row.verified \in {"sinyaya", ""}) =>
        f_result[1] = (VerdictWithoutRule4 /\ f_row.verified = "sinyaya")

\* a record the panel marked is rejected whenever require_checkmark is on
PanelBadgeRejected ==
    (f_result # <<>> /\ f_settings.require_checkmark
       /\ f_row.verified \in {"green", "blue"}) => f_result[1] = FALSE

\* the configured white-list terms, normalised as the spec normalises the name
SpecWhiteList ==
    LET parsed == _parse_list(f_settings.white_list)
    IN  [i \in 1..Len(parsed) |-> _normalize_text(parsed[i])]

HasWhiteTerm == \E i \in 1..Len(SpecWhiteList) : Contains(SpecName, SpecWhiteList[i])

\* the verdict of the filter of the run with rule 1 switched off
VerdictWithoutRule1 ==
    Passes(variant, f_row, [f_settings EXCEPT !.white_list = <<>>])

\* C29: with a non-empty white list a record passes rule 1 exactly when its name,
\* lowercased, with yo replaced by e and punctuation collapsed, contains a white-list
\* term normalised the same way; a term and a name that differ only in case or in
\* yo / e match
C29_WhiteListNormalized ==
    (f_result # <<>> /\ SpecWhiteList # <<>>) =>
        f_result[1] = (HasWhiteTerm /\ VerdictWithoutRule1)

\* what holds of rule 1: a difference in letter case alone never prevents a match
\* (name and terms are both lowercased; yo and punctuation are left as each variant
\* leaves them)
WhiteListCaseInsensitive ==
    LET name  == IF variant = "root" THEN lower(f_row.name) ELSE SpecName
        terms == _parse_list(f_settings.white_list)
    IN  (f_result # <<>> /\ terms # <<>>) =>
            f_result[1] = (/\ \E i \in 1..Len(terms) : Contains(name, lower(terms[i]))
                           /\ VerdictWithoutRule1)

\* in the variant that normalises the name, a white-list term spelt with yo matches
\* no name
AppYoTermNeverMatches ==
    (/\ f_result # <<>> /\ variant = "app"
     /\ f_settings.white_list = <<"yo", "l", "k", "a">>) => f_result = <<FALSE>>

Suspended == pause_event /\ ~stop_event

\* C30: Pause suspends the carousel crawl only between cards: control reaches the
\* extraction of a card (card = cards.nth(idx)) only with Pause clear or Stop set,
\* a card in extraction is completed whatever Pause is, and idx moves by one card
\* at a time, after the card's append or duplicate test
C30_PauseBetweenCards ==
    [][/\ (crawl_pc # "card" /\ crawl_pc' = "card") => ~Suspended'
       /\ (crawl_pc \in {"show_phone", "popup", "append"} /\ Suspended)
              => ENABLED (\/ \E text_after \in {<<>>, PhoneA} : ClickShowPhone(text_after)
                          \/ \E popup \in Popups : ExtraPopup(popup)
                          \/ \E progress_raises \in BOOLEAN : AppendRow(progress_raises))
       /\ (idx' # idx /\ crawl_pc # "entry_captcha")
              => (idx' = idx + 1 /\ crawl_pc \in {"append", "delay"})]_vars

\* the pause test at the head of the loop: an iteration that finds no captcha
\* reaches its card with Pause clear or Stop set
PauseTestedAtLoopHead ==
    [][(crawl_pc = "pause_wait" /\ crawl_pc' = "card") => ~Suspended']_vars

\* the same of an iteration that waited for a captcha: wait_captcha_resolved hands
\* the page back to the extraction of the card only with Pause clear or Stop set
CaptchaWaitHandsBackUnpaused ==
    [][(crawl_pc = "captcha_wait" /\ crawl_pc' = "card") => ~Suspended']_vars

\* Pause never stops a card in extraction and never moves idx
PauseKeepsCardAndIndex ==
    [][/\ (crawl_pc \in {"show_phone", "popup", "append"} /\ Suspended)
              => ENABLED (\/ \E text_after \in {<<>>, PhoneA} : ClickShowPhone(text_after)
                          \/ \E popup \in Popups : ExtraPopup(popup)
                          \/ \E progress_raises \in BOOLEAN : AppendRow(progress_raises))
       /\ (idx' # idx /\ crawl_pc # "entry_captcha")
              => (idx' = idx + 1 /\ crawl_pc \in {"append", "delay"})]_vars

\* the first non-empty entry of a sequence of texts, <<>> when there is none
FirstNonEmpty(seq) ==
    IF \E i \in 1..Len(seq) : seq[i] # <<>>
    THEN seq[CHOOSE i \in 1..Len(seq) :
                 seq[i] # <<>> /\ \A j \in 1..(i - 1) : seq[j] = <<>>]
    ELSE <<>>

\* C31: the carousel reads the phone by a fixed ordered fallback, each step taken at
\* most once: the show-phone click only when the main button gave no phone, the popup's
\* phone used only when both earlier steps gave nothing; the record's phone is what
\* the first yielding step gave and is empty when all three gave nothing
C31_PhoneFallbackOrder ==
    serp_card # <<>> =>
        LET c == serp_card[1]
        IN  /\ c.steps \in {<<"main">>, <<"main", "click">>, <<"main", "popup">>,
                            <<"main", "click", "popup">>}
            /\ Len(c.phone_steps) = Len(c.steps)
            /\ (Len(c.steps) > 1 /\ c.steps[2] = "click") => c.phone_steps[1] = <<>>
            /\ c.phones = FirstNonEmpty(c.phone_steps)
            /\ crawl_pc = "delay" =>
                   produced[Len(produced)].phone = FirstNonEmpty(c.phone_steps)

\* a yielded card whose phone came from the popup after the two earlier steps gave
\* nothing
C31_Witness ==
    /\ crawl_pc = "delay" /\ serp_card # <<>>
    /\ serp_card[1].steps = <<"main", "click", "popup">>
    /\ serp_card[1].phone_steps = <<<<>>, <<>>, PhoneB>>
    /\ produced[Len(produced)].phone = PhoneB

\* a yielded card whose popup was opened for its site and showed another phone
PopupPhoneIgnored ==
    /\ crawl_pc = "delay" /\ serp_card # <<>>
    /\ serp_card[1].phone_steps = <<PhoneA, PhoneB>>
    /\ produced[Len(produced)].phone = PhoneA

\* the key the spec gives a record: the identifier embedded in its profile link, or
\* name|review-count when the link holds none
SpecKey(name, card_url) ==
    IF _extract_oid_from_href(card_url) # ""
    THEN <<_extract_oid_from_href(card_url)>>
    ELSE <<name, "|", Reviews>>

\* C32: the carousel's dedup key is the identifier embedded in the record's profile
\* link, or name|review-count when there is none; a card is skipped exactly when its
\* key is in the seen set of the call, the first card with a key is kept, and the seen
\* set, empty at the start of the call, holds exactly the keys of the kept records
C32_DedupKey ==
    /\ [](mode = "fast" =>
            seen_keys = { SpecKey(produced[i].name, produced[i].card_url) :
                            i \in 1..Len(produced) })
    /\ [][(crawl_pc = "append" /\ crawl_pc' # crawl_pc) =>
            LET c == serp_card[1]
                url == IF c.profile_link # <<>> THEN c.profile_link ELSE c.card_url
                key == SpecKey(c.name, url)
            IN  /\ dedupe_key' = key
                /\ (key \in seen_keys) <=> (produced' = produced)
                /\ key \notin seen_keys =>
                       /\ Len(produced') = Len(produced) + 1
                       /\ produced'[Len(produced')].card_url = url
                       /\ produced'[Len(produced')].name = c.name]_vars

\* a second card without identifier skipped: the first card, also without one, was
\* kept under the same name|review-count key
C32_Witness ==
    /\ crawl_pc = "card_top" /\ idx = 2 /\ Len(produced) = 1
    /\ dedupe_key = <<<<>>, "|", Reviews>>
    /\ seen_keys = {dedupe_key}

\* two kept cards, one keyed by its identifier and one by name|review-count
TwoKeysKept ==
    /\ Len(produced) = 2
    /\ seen_keys = {<<"101">>, <<<<>>, "|", Reviews>>}

\* the calls the spec asks for after a yielded record: one maybe_batch_pause that sleeps
\* exactly when everyN > 0 and index % everyN = 0, then one wait_action
RateCallsOfRecord ==
    /\ Len(rl_calls) = 2
    /\ rl_calls[1].op = "maybe_batch_pause" /\ rl_calls[2].op = "wait_action"
    /\ rl_calls[1].slept = IF rl_calls[1].every > 0
                            THEN rl_calls[1].index % rl_calls[1].every = 0 ELSE FALSE

\* C33: after each yielded record the collector calls RateLimiter.wait_action once,
\* and maybe_batch_pause sleeps exactly when everyN > 0 and index % everyN = 0; a set
\* Stop ends the sleeps
C33_RateCadence ==
    /\ (crawl_pc \in {"item", "card_top"} /\ produced # <<>>) => RateCallsOfRecord
    /\ (crawl_pc = "delay" /\ stop_event) => ENABLED CardDelay(TRUE)

\* the carousel keeps the cadence: the calls follow every row, and Stop ends the delays
CarouselRateCadence ==
    /\ (mode = "fast" /\ crawl_pc = "card_top" /\ produced # <<>>) => RateCallsOfRecord
    /\ (crawl_pc = "delay" /\ stop_event) => ENABLED CardDelay(TRUE)
    /\ (crawl_pc = "delay" /\ pause_event /\ ~stop_event) => ~ENABLED CardDelay(TRUE)

\* maybe_batch_pause by itself, for every index and every everyN from -1 on
BatchPauseRule ==
    rl_calls # <<>> =>
        rl_calls[1].slept = IF rl_calls[1].every > 0
                            THEN rl_calls[1].index % rl_calls[1].every = 0 ELSE FALSE

\* the panel collector calls no rate limiter
PanelNeverRateLimits == mode = "slow" => rl_calls = <<>>

\* C34: captcha auto-remediation is bounded: in one wait the helper makes at most two
\* click-and-reload cycles, all on the primary page and before the loop, and no later
\* poll of the wait ("poll", "still") makes another
C34_RemediationBounded ==
    /\ [](cw.cycles <= 2)
    /\ [](\A o \in cw.ops : o.op = "reload" => (o.on = "base" /\ ~o.visible))
    /\ [][(cw.pc = "loop" /\ cw'.pc # "off") => cw'.cycles = cw.cycles]_vars

\* a wait that made its two cycles and then found the captcha still there on a later
\* poll
C34_Witness ==
    /\ cw.pc = "loop" /\ cw.cycles = 2
    /\ Count(hooks, "still") >= 1
    /\ PageOp("reload", "base", FALSE) \in cw.ops

\* from the second captcha of a run on no cycle is made at all
LaterWaitsMakeNoCycle ==
    (cw.pc = "loop" /\ captchas >= 2) => cw.cycles = 0

\* C35: while the visible browser is open the primary page is left alone: from the
\* moment the helper returns the visible page the wait loop works on that page only
\* (no navigation, reload, click or detection on the primary page), and the primary
\* page is touched again only by the reload of the swap back
C35_PrimarySuspended ==
    /\ [](\A o \in cw.ops : o.visible => o.on = "visible")
    /\ []((helper._using_visible /\ cw.pc = "loop") => cw.page = "visible")
    /\ [][(helper._using_visible /\ cw'.pc # "off") =>
             \A o \in cw'.ops \ cw.ops :
                 o.on = "base" => (o.op = "swap_reload" /\ ~helper'._using_visible)]_vars

\* a captcha solved in the visible browser: the loop looked at the visible page, and
\* the swap back reloaded the primary page
C35_Witness ==
    /\ cw.pc = "backoff" /\ cw.page = "base"
    /\ PageOp("detect", "visible", TRUE) \in cw.ops
    /\ PageOp("swap_reload", "base", FALSE) \in cw.ops

BackoffWithinBounds ==
    rl.backoff_base_s <= rl._backoff_s /\ rl._backoff_s <= rl.backoff_max_s

\* C36: with 0 < backoff_base <= backoff_max the current backoff interval lies in
\* [backoff_base, backoff_max] after any sequence of wait_backoff, reset_backoff and
\* setting updates
C36_BackoffBounds ==
    (0 < rl.backoff_base_s /\ rl.backoff_base_s <= rl.backoff_max_s) => BackoffWithinBounds

\* what holds: the interval is within the bounds when no setting update came since
\* construction or reset_backoff, and again after the first wait_backoff that follows
\* an update
BackoffBoundsBetweenUpdates ==
    (/\ 0 < rl.backoff_base_s /\ rl.backoff_base_s <= rl.backoff_max_s
     /\ rl_fresh \/ waits # <<>>) => BackoffWithinBounds

\* a limiter whose base was raised above the current interval, bounds still in order
BaseRaisedAboveInterval ==
    /\ ~rl_fresh /\ waits = <<>>
    /\ rl.backoff_base_s = 3 /\ rl.backoff_max_s = 4 /\ rl._backoff_s = 2

\* the identifier a panel step marks as parsed
NewlyParsed == CHOOSE x \in parsed_ids' \ parsed_ids : TRUE

\* C37: in panel enumeration the record yielded for identifier X carries the data of
\* X: X is an enumerated identifier, the list item clicked, marked as parsed with the
\* yield and only then, and the record's fields are read from the detail panel whose
\* data-id is X, also when the panel was found by the fallback wait
C37_RecordMatchesId ==
    [][(mode = "slow" /\ produced' # produced) =>
          /\ Cardinality(parsed_ids' \ parsed_ids) = 1
          /\ NewlyParsed \in all_ids /\ NewlyParsed = items[idx]
          /\ produced' = Append(produced, produced'[Len(produced')])
          /\ produced'[Len(produced')].name = <<NewlyParsed>>]_vars

\* what holds: the identifier marked is the enumerated list item that was clicked, and
\* an identifier is marked only together with a yield
PanelMarksClickedItem ==
    [][(mode = "slow" /\ (produced' # produced \/ parsed_ids' # parsed_ids)) =>
          /\ Cardinality(parsed_ids' \ parsed_ids) = 1
          /\ NewlyParsed \in all_ids /\ NewlyParsed = items[idx]
          /\ Len(produced') = Len(produced) + 1]_vars

\* a record yielded for one identifier with the fields of another card's panel
ForeignPanelYielded ==
    /\ mode = "slow" /\ crawl_pc = "yielded"
    /\ produced[Len(produced)].name # <<items[idx - 1]>>

\* C38: the page wait_captcha_resolved returns was found captcha-free by the last
\* is_captcha made on that same page handle, also when the captcha was solved in the
\* visible browser and the page returned is the primary page of the swap back
C38_ReturnedPageChecked ==
    cw.pc = "backoff" => cw.checked[cw.page] = <<FALSE>>

\* what holds: the page the loop was polling when it left was found captcha-free, and
\* without a swap back that is the page returned
ReturnedPageCheckedWithoutSwap ==
    /\ cw.pc = "backoff" => cw.detect = <<FALSE>>
    /\ (cw.pc = "backoff" /\ PageOp("swap_reload", "base", FALSE) \notin cw.ops) =>
          cw.checked[cw.page] = <<FALSE>>

\* the primary page handed back after a swap: its last detection said captcha, the
\* clearing detection was made on the visible page
SwappedPageUnchecked ==
    /\ cw.pc = "backoff" /\ cw.page = "base"
    /\ PageOp("swap_reload", "base", FALSE) \in cw.ops
    /\ cw.checked.base = <<TRUE>> /\ cw.checked.visible = <<FALSE>>

-----------------------------------------------------------------------------
(* SpecRun: the GUI object and its worker threads: Start / Pause / Resume /*)
(* Stop, the message queue the GUI drains, and each worker thread from its *)
(* first statement to its last: ParserGUIApp (src/gui.py) with _run_worker,*)
(* ParserGUI (src/app/gui.py) with _run_worker and _run_reviews_worker.    *)

MaxRuns == 2
MaxRunCards == 1

GuiClasses == {"ParserGUIApp", "ParserGUI"}

\* the thread targets a GUI class can start
Targets(cls) ==
    IF cls = "ParserGUI" THEN {"_run_worker", "_run_reviews_worker"}
    ELSE {"_run_worker"}

\* the messages a worker puts on _log_queue at its start and in its finally block
StatusWork == <<"status", "work">>
StatusDone == <<"status", "done">>
ProgressDone == <<"progress_done", "">>
StateFalse == <<"state", "False">>

\* a worker thread just created: pc is its position, ret the position its captcha
\* wait returns to, cards the items handled, final the messages of its finally
\* block so far; raised tells that an exception was handled, broke names the loop
\* that was left because Stop was set ("" = none), announced tells that the closing
\* "saved" notice was logged
Thread(target, m) ==
    [target |-> target, mode |-> m, pc |-> "begin", ret |-> "", cards |-> 0,
     final |-> <<>>, raised |-> FALSE, broke |-> "", announced |-> FALSE]

\* a thread that has returned and that self._worker no longer refers to
Joined ==
    [target |-> "", mode |-> "", pc |-> "dead", ret |-> "", cards |-> 0,
     final |-> <<>>, raised |-> FALSE, broke |-> "", announced |-> FALSE]

\* a Start that does not look at _running
start_allowed_always(running) == TRUE

\* _on_start / _start_reviews: `if self._running: return`
start_allowed(running) == ~running

\* a wait that only Resume ends
wait_over_pause_only(stop, pause) == ~pause

\* `while pause_event.is_set() and not stop_event.is_set(): sleep` is left, and with
\* it the loop of _wait_with_pause once its time is over
wait_over(stop, pause) == ~pause \/ stop

InitRun ==
    /\ gui \in {[NoGui EXCEPT !.cls = c] : c \in GuiClasses}
    /\ produced = <<>> /\ writer = ExcelWriter /\ last_include = <<>>
    /\ stop_event = FALSE /\ pause_event = FALSE
    /\ mode = "fast" /\ sink_pc = "closed"
    /\ variant = "root" /\ f_row = Organization(<<>>, BaseFields)
    /\ f_settings = PotentialFiltersSettings(<<>>, <<>>,
                       [exclude_no_phone |-> FALSE, require_checkmark |-> FALSE,
                        exclude_good_place |-> FALSE, exclude_noncommercial |-> FALSE,
                        max_rating |-> None])
    /\ f_result = <<>> /\ config = NoConfig
    /\ PhoneIdle /\ RateIdle /\ CrawlIdle /\ DetectIdle /\ CaptchaIdle /\ LoadIdle
    /\ SerpIdle

runRest ==
    <<filterVars, phoneVars, rateVars, crawlVars, detectVars, captchaRest, loadVars,
      serpVars, produced, writer, last_include, mode, sink_pc>>

eventVars == <<stop_event, pause_event, captcha_resume_event>>

Alive(t) == t.pc # "dead"

\* _on_start and _start_reviews: the events are cleared, _running is set and the
\* thread is created and started; a request while _running is set returns at once
_on_start(target, m) ==
    /\ target \in Targets(gui.cls)
    /\ Len(gui.threads) < MaxRuns
    /\ IF start_allowed(gui._running)
       THEN /\ stop_event' = FALSE /\ pause_event' = FALSE
            /\ captcha_resume_event' = FALSE
            /\ gui' = [gui EXCEPT
                         !._running = TRUE,
                         !.threads = Append([w \in 1..Len(gui.threads) |->
                                               IF Alive(gui.threads[w])
                                               THEN gui.threads[w] ELSE Joined],
                                            Thread(target, m))]
       ELSE UNCHANGED <<gui, eventVars>>
    /\ UNCHANGED runRest

\* _on_pause
_on_pause ==
    /\ gui._running
    /\ pause_event' = TRUE
    /\ UNCHANGED <<gui, stop_event, captcha_resume_event, runRest>>

\* _on_resume
_on_resume ==
    /\ gui._running
    /\ pause_event' = FALSE
    /\ captcha_resume_event' = TRUE
    /\ UNCHANGED <<gui, stop_event, runRest>>

\* _on_stop
_on_stop ==
    /\ gui._running
    /\ stop_event' = TRUE
    /\ pause_event' = FALSE
    /\ captcha_resume_event' = TRUE
    /\ UNCHANGED <<gui, runRest>>

\* _drain_queue: every queued message is handled; ("state", False) clears _running
_drain_queue ==
    /\ gui._log_queue # <<>>
    /\ gui' = [gui EXCEPT
                  !._log_queue = <<>>,
                  !._running = IF \E i \in 1..Len(gui._log_queue) :
                                      gui._log_queue[i] = StateFalse
                               THEN FALSE ELSE @]
    /\ UNCHANGED <<eventVars, runRest>>

\* thread w moves on to t
Goes(w, t) == gui' = [gui EXCEPT !.threads[w] = t]

\* thread w puts msg on _log_queue and moves on to t
Puts(w, msg, t) ==
    gui' = [gui EXCEPT !.threads[w] = t, !._log_queue = Append(@, msg)]

At(w, target, pc) ==
    /\ w \in 1..Len(gui.threads)
    /\ gui.threads[w].target \in target
    /\ gui.threads[w].pc = pc

AnyTarget == {"_run_worker", "_run_reviews_worker"}

\* _run_worker / _run_reviews_worker: the first put, status "working"
WorkerBegin(w) ==
    /\ At(w, AnyTarget, "begin")
    /\ Puts(w, StatusWork, [gui.threads[w] EXCEPT !.pc = "body"])
    /\ UNCHANGED <<eventVars, runRest>>

\* _run_worker: _run_fast or _run_slow is entered.  gui._run_slow builds
\* pacser_maps.YandexMapsScraper with stop_event, pause_event, captcha_resume_event,
\* captcha_hook and log, which its __init__ does not take: TypeError.  _run_fast
\* calls run_fast_parser, whose first captcha test may start a captcha wait.
EnterBody(w, captcha) ==
    /\ At(w, {"_run_worker"}, "body")
    /\ LET t == gui.threads[w]
       IN  IF t.mode = "slow"
           THEN /\ Goes(w, [t EXCEPT !.pc = IF gui.cls = "ParserGUIApp"
                                            THEN "except" ELSE "iter"])
                /\ UNCHANGED captcha_resume_event
           ELSE IF captcha
           THEN /\ Goes(w, [t EXCEPT !.pc = "captcha", !.ret = "load_top"])
                /\ captcha_resume_event' = FALSE
           ELSE /\ Goes(w, [t EXCEPT !.pc = "load_top"])
                /\ UNCHANGED captcha_resume_event
    /\ UNCHANGED <<stop_event, pause_event, runRest>>

\* _run_reviews_worker: the writer and the parser are built, the loop is entered
EnterReviews(w) ==
    /\ At(w, {"_run_reviews_worker"}, "body")
    /\ Goes(w, [gui.threads[w] EXCEPT !.pc = "iter"])
    /\ UNCHANGED <<eventVars, runRest>>

\* `for org in scraper.run()` / `for review in parser.run()`: the generator yields
\* an item, is exhausted, or raises
Iterate(w, outcome) ==
    /\ At(w, AnyTarget, "iter")
    /\ outcome = "yield" => gui.threads[w].cards < MaxRunCards
    /\ Goes(w, [gui.threads[w] EXCEPT
                  !.pc = CASE outcome = "yield" -> "item_stop"
                           [] outcome = "end" -> "after_loop"
                           [] outcome = "raise" -> "except"])
    /\ UNCHANGED <<eventVars, runRest>>

\* the loop body: `if self._stop_event.is_set(): break`
ItemStop(w) ==
    /\ At(w, AnyTarget, "item_stop")
    /\ Goes(w, IF stop_event
               THEN [gui.threads[w] EXCEPT !.pc = "after_loop", !.broke = "items"]
               ELSE [gui.threads[w] EXCEPT !.pc = "item_pause"])
    /\ UNCHANGED <<eventVars, runRest>>

\* the loop body: the pause wait, then writer.append and count += 1
ItemPause(w) ==
    /\ At(w, AnyTarget, "item_pause")
    /\ wait_over(stop_event, pause_event)
    /\ Goes(w, [gui.threads[w] EXCEPT !.pc = "iter", !.cards = @ + 1])
    /\ UNCHANGED <<eventVars, runRest>>

\* _run_slow after the loop: writer.close() and `if not self._stop_event.is_set()`
\* with the closing notice; _run_reviews_worker goes on to its finally block
AfterLoop(w) ==
    /\ At(w, AnyTarget, "after_loop")
    /\ LET t == gui.threads[w]
       IN  Goes(w, IF t.target = "_run_worker"
                   THEN [t EXCEPT !.pc = "finally", !.announced = ~stop_event]
                   ELSE [t EXCEPT !.pc = "finally"])
    /\ UNCHANGED <<eventVars, runRest>>

\* _load_all_cards: `while not stop_event.is_set()`
RunLoadTop(w) ==
    /\ At(w, {"_run_worker"}, "load_top")
    /\ Goes(w, [gui.threads[w] EXCEPT
                  !.pc = IF stop_event THEN "card_top" ELSE "load_pause"])
    /\ UNCHANGED <<eventVars, runRest>>

\* _load_all_cards: the pause wait at the head of the loop body
RunLoadPause(w) ==
    /\ At(w, {"_run_worker"}, "load_pause")
    /\ wait_over(stop_event, pause_event)
    /\ Goes(w, [gui.threads[w] EXCEPT !.pc = "load_body"])
    /\ UNCHANGED <<eventVars, runRest>>

\* _load_all_cards: the rest of the loop body: one of its exits is taken, or the
\* loop goes round
RunLoadBody(w, exits) ==
    /\ At(w, {"_run_worker"}, "load_body")
    /\ Goes(w, [gui.threads[w] EXCEPT
                  !.pc = IF exits THEN "card_top" ELSE "load_top"])
    /\ UNCHANGED <<eventVars, runRest>>

\* parse_serp_cards: the loop over the cards ends at total or `if stop: break`;
\* then the write loop of run_fast_parser, which also breaks on stop
RunCardTop(w) ==
    /\ At(w, {"_run_worker"}, "card_top")
    /\ LET t == gui.threads[w]
       IN  Goes(w, IF stop_event THEN [t EXCEPT !.pc = "write", !.broke = "cards"]
                   ELSE IF t.cards >= MaxRunCards THEN [t EXCEPT !.pc = "write"]
                   ELSE [t EXCEPT !.pc = "card_pause"])
    /\ UNCHANGED <<eventVars, runRest>>

\* parse_serp_cards: the pause wait, then is_captcha(page); a captcha starts
\* wait_captcha_resolved, which clears captcha_resume_event before its loop
RunCardPause(w, captcha) ==
    /\ At(w, {"_run_worker"}, "card_pause")
    /\ wait_over(stop_event, pause_event)
    /\ IF captcha
       THEN /\ Goes(w, [gui.threads[w] EXCEPT !.pc = "captcha", !.ret = "card"])
            /\ captcha_resume_event' = FALSE
       ELSE /\ Goes(w, [gui.threads[w] EXCEPT !.pc = "card"])
            /\ UNCHANGED captcha_resume_event
    /\ UNCHANGED <<stop_event, pause_event, runRest>>

\* wait_captcha_resolved: the loop test and one iteration; with stop set it returns
\* None and the caller breaks / returns
RunCaptcha(w, c1, c2) ==
    /\ At(w, {"_run_worker"}, "captcha")
    /\ LET t == gui.threads[w]
           st == wait_step(captcha_resume_event, c1, c2)
       IN  IF stop_event
           THEN /\ Goes(w, [t EXCEPT !.pc = "write", !.broke = "captcha"])
                /\ UNCHANGED captcha_resume_event
           ELSE /\ Goes(w, [t EXCEPT !.pc = IF st = "cleared" THEN "backoff"
                                            ELSE "captcha"])
                /\ captcha_resume_event' =
                      (IF st = "sleep" THEN captcha_resume_event ELSE FALSE)
    /\ UNCHANGED <<stop_event, pause_event, runRest>>

\* wait_captcha_resolved: rate_limiter.wait_backoff(stop_event, None) is over (its
\* time, or stop), `return page`
RunBackoff(w) ==
    /\ At(w, {"_run_worker"}, "backoff")
    /\ wait_over(stop_event, FALSE)
    /\ Goes(w, [gui.threads[w] EXCEPT !.pc = gui.threads[w].ret, !.ret = ""])
    /\ UNCHANGED <<eventVars, runRest>>

\* parse_serp_cards: the card is read and appended, or a Playwright call raises
RunCard(w, raises) ==
    /\ At(w, {"_run_worker"}, "card")
    /\ Goes(w, [gui.threads[w] EXCEPT !.pc = IF raises THEN "except" ELSE "delay"])
    /\ UNCHANGED <<eventVars, runRest>>

\* parse_serp_cards: the delay after the card (maybe_human_delay / wait_action,
\* both _wait_with_pause)
RunDelay(w) ==
    /\ At(w, {"_run_worker"}, "delay")
    /\ wait_over(stop_event, pause_event)
    /\ Goes(w, [gui.threads[w] EXCEPT !.pc = "card_top", !.cards = @ + 1])
    /\ UNCHANGED <<eventVars, runRest>>

\* run_fast_parser's write loop and close, then _run_fast:
\* `if not self._stop_event.is_set()` with the closing notice
RunWrite(w) ==
    /\ At(w, {"_run_worker"}, "write")
    /\ Goes(w, [gui.threads[w] EXCEPT !.pc = "finally", !.announced = ~stop_event])
    /\ UNCHANGED <<eventVars, runRest>>

\* `except Exception as exc`: the error is logged, the error sound played
WorkerExcept(w) ==
    /\ At(w, AnyTarget, "except")
    /\ Goes(w, [gui.threads[w] EXCEPT !.pc = "finally", !.raised = TRUE])
    /\ UNCHANGED <<eventVars, runRest>>

\* the messages of the finally block, in the order of the puts
FinalMessages(target) ==
    IF target = "_run_worker" THEN <<StatusDone, ProgressDone, StateFalse>>
    ELSE <<ProgressDone, StateFalse, StatusDone>>

\* the finally block: the next put; after the last one _run_worker returns, while
\* _run_reviews_worker goes on to the statements after its try
WorkerFinally(w) ==
    /\ At(w, AnyTarget, "finally")
    /\ LET t == gui.threads[w]
           msgs == FinalMessages(t.target)
           n == Len(t.final) + 1
           next == IF n < Len(msgs) THEN "finally"
                   ELSE IF t.target = "_run_worker" THEN "dead" ELSE "tail"
       IN  Puts(w, msgs[n], [t EXCEPT !.pc = next, !.final = Append(@, msgs[n])])
    /\ UNCHANGED <<eventVars, runRest>>

\* _run_reviews_worker after the finally block: `if not self._stop_event.is_set()`,
\* the "saved" notice, the finish sound and the opening of the file
ReviewsTail(w) ==
    /\ At(w, {"_run_reviews_worker"}, "tail")
    /\ Goes(w, [gui.threads[w] EXCEPT !.pc = "dead", !.announced = ~stop_event])
    /\ UNCHANGED <<eventVars, runRest>>

\* the steps of worker thread w
RunWorker(w) ==
    \/ WorkerBegin(w)
    \/ \E captcha \in BOOLEAN : EnterBody(w, captcha)
    \/ EnterReviews(w)
    \/ \E outcome \in {"yield", "end", "raise"} : Iterate(w, outcome)
    \/ ItemStop(w)
    \/ ItemPause(w)
    \/ AfterLoop(w)
    \/ RunLoadTop(w)
    \/ RunLoadPause(w)
    \/ \E exits \in BOOLEAN : RunLoadBody(w, exits)
    \/ RunCardTop(w)
    \/ \E captcha \in BOOLEAN : RunCardPause(w, captcha)
    \/ \E c1 \in BOOLEAN, c2 \in BOOLEAN : RunCaptcha(w, c1, c2)
    \/ RunBackoff(w)
    \/ \E raises \in BOOLEAN : RunCard(w, raises)
    \/ RunDelay(w)
    \/ RunWrite(w)
    \/ WorkerExcept(w)
    \/ WorkerFinally(w)
    \/ ReviewsTail(w)

NextRun ==
    \/ \E target \in AnyTarget, m \in {"slow", "fast"} : _on_start(target, m)
    \/ _on_pause
    \/ _on_resume
    \/ _on_stop
    \/ _drain_queue
    \/ \E w \in 1..MaxRuns : RunWorker(w)

SpecRun == InitRun /\ [][NextRun]_vars

\* the steps a _run_worker thread of src/gui.py can take
AppWorker(w) ==
    \/ WorkerBegin(w)
    \/ \E captcha \in BOOLEAN : EnterBody(w, captcha)
    \/ RunLoadTop(w)
    \/ RunLoadPause(w)
    \/ \E exits \in BOOLEAN : RunLoadBody(w, exits)
    \/ RunCardTop(w)
    \/ \E captcha \in BOOLEAN : RunCardPause(w, captcha)
    \/ \E c1 \in BOOLEAN, c2 \in BOOLEAN : RunCaptcha(w, c1, c2)
    \/ RunBackoff(w)
    \/ \E raises \in BOOLEAN : RunCard(w, raises)
    \/ RunDelay(w)
    \/ RunWrite(w)
    \/ WorkerExcept(w)
    \/ WorkerFinally(w)

\* the steps of the worker threads of ParserGUIApp
AppWorkers == \E w \in 1..MaxRuns : AppWorker(w)

InitRunApp == InitRun /\ gui.cls = "ParserGUIApp"

NextRunApp ==
    \/ \E m \in {"slow", "fast"} : _on_start("_run_worker", m)
    \/ _on_pause
    \/ _on_resume
    \/ _on_stop
    \/ _drain_queue
    \/ AppWorkers

\* SpecRunApp: ParserGUIApp of src/gui.py alone
SpecRunApp == InitRunApp /\ [][NextRunApp]_vars

\* a started worker thread is scheduled as long as it has a step to take (the
\* threads of ParserGUIApp run one after the other)
SpecRunAppFair == SpecRunApp /\ WF_vars(AppWorkers)

-----------------------------------------------------------------------------
(* Properties of the GUI and its worker threads.                           *)

\* the positions whose step reads stop_event, pause_event or captcha_resume_event
EventReadPcs ==
    {"item_stop", "item_pause", "load_top", "load_pause", "card_top", "card_pause",
     "captcha", "backoff", "delay", "write", "tail"}

ThreadIds == 1..Len(gui.threads)

\* thread w has put its ("state", False)
PutStateFalse(t) == \E i \in 1..Len(t.final) : t.final[i] = StateFalse

\* thread w takes a step that reads a shared event
ReadsEvent(w) ==
    /\ gui.threads'[w] # gui.threads[w]
    /\ \/ gui.threads[w].pc \in EventReadPcs
       \/ gui.threads[w].pc = "after_loop" /\ gui.threads[w].target = "_run_worker"

\* C39: one automation thread per run: a Start while a run is active creates no
\* thread and clears no event, a thread is created only after every earlier worker
\* has put its final ("state", False), and a worker that has put that message never
\* reads a shared event again, so that it cannot see the events cleared for the next
\* run
C39_OneThreadPerRun ==
    /\ [][gui._running => Len(gui.threads') = Len(gui.threads)]_vars
    /\ [][(Len(gui.threads') > Len(gui.threads)) =>
             \A w \in ThreadIds :
                 gui.threads[w] = Joined \/ PutStateFalse(gui.threads[w])]_vars
    /\ [][\A w \in ThreadIds :
             ReadsEvent(w) => ~PutStateFalse(gui.threads[w])]_vars

\* what holds: Start is ignored while _running is set, and a thread is created only
\* when every earlier worker has put its ("state", False)
StartOnlyAfterFinalState ==
    /\ [][gui._running => (Len(gui.threads') = Len(gui.threads)
                             /\ (stop_event => stop_event'))]_vars
    /\ [][(Len(gui.threads') > Len(gui.threads)) =>
             \A w \in ThreadIds :
                 gui.threads[w] = Joined \/ PutStateFalse(gui.threads[w])]_vars

\* what holds: _run_worker reads no event after its ("state", False), and at most
\* one _run_worker thread is alive
RunWorkerNeverReadsLate ==
    /\ [][\A w \in ThreadIds :
             (ReadsEvent(w) /\ gui.threads[w].target = "_run_worker") =>
                 ~PutStateFalse(gui.threads[w])]_vars
    /\ [](Cardinality({w \in ThreadIds : Alive(gui.threads[w])
                           /\ gui.threads[w].target = "_run_worker"}) <= 1)

\* a reviews worker that left its loop because of Stop and, behind its
\* ("state", False), found stop_event cleared by the next Start: it logs the "saved"
\* notice and opens the file
StoppedReviewsAnnounced ==
    \E w \in ThreadIds :
        /\ gui.threads[w].target = "_run_reviews_worker"
        /\ gui.threads[w].broke = "items" /\ gui.threads[w].announced

\* the finished reviews worker and the worker of the next run, both alive
TwoThreadsAlive ==
    Cardinality({w \in ThreadIds : Alive(gui.threads[w])}) >= 2

\* thread w is a _run_worker thread of src/gui.py
IsRunWorker(w) ==
    /\ gui.cls = "ParserGUIApp" /\ w \in ThreadIds
    /\ gui.threads[w].target = "_run_worker"

\* thread w has returned and its finally block has put its three messages
Finished(w) ==
    /\ IsRunWorker(w) /\ gui.threads[w].pc = "dead"
    /\ gui.threads[w].final = FinalMessages("_run_worker")

\* C40: a Stop always ends the run: _on_stop sets Stop, clears Pause and sets the
\* captcha resume signal, and wherever the _run_worker thread stands (reading a
\* card, paused, in a delay, in the captcha loop) it then reaches the end of
\* _run_worker, having put status, progress_done and ("state", False) exactly once
\* each, after an exception as after a normal return
C40_StopEndsRun ==
    /\ [][(~stop_event /\ stop_event') =>
             (gui._running /\ ~pause_event' /\ captcha_resume_event')]_vars
    /\ [](\A w \in ThreadIds :
             IsRunWorker(w) =>
                 /\ IsPrefix(gui.threads[w].final, FinalMessages("_run_worker"))
                 /\ gui.threads[w].pc = "dead" => Finished(w))
    /\ (stop_event /\ \E w \in ThreadIds : IsRunWorker(w) /\ Alive(gui.threads[w]))
          ~> (\A w \in ThreadIds : gui.threads[w] = Joined \/ Finished(w))

\* a captcha wait ended by Stop, after which the worker put its three messages and
\* returned
C40_Witness ==
    \E w \in ThreadIds :
        /\ Finished(w) /\ stop_event
        /\ gui.threads[w].broke = "captcha" /\ ~gui.threads[w].announced

\* Stop set while the worker is held by Pause in a delay or at the head of a card
StopWhilePaused ==
    \E w \in ThreadIds :
        /\ IsRunWorker(w) /\ stop_event /\ pause_event
        /\ gui.threads[w].pc \in {"delay", "card_pause", "load_pause"}

\* a worker that handled an exception and put its three messages
FinishedAfterException ==
    \E w \in ThreadIds : Finished(w) /\ gui.threads[w].raised

=============================================================================
